---- MODULE Spec2Model ----
(***************************************************************************)
(* Model of the LMS access gate of n8n-desktop (src/lmsIntegration.js):    *)
(* the credential decoder, the token cache store on the one cache file,    *)
(* the token validity policy and getValidToken.                            *)
(* this.jwtToken and this.lastResponse are written by these operations and *)
(* read by none of them (displayJWTInfo is handed the token); they are     *)
(* not part of the state.                                                  *)
(*                                                                         *)
(* JavaScript values are tagged records so that every comparison is        *)
(* between values of one shape.  A token is a sequence of one-character    *)
(* strings; "." separates segments and every other character stands for    *)
(* one base64url chunk whose decoded text is given by jsonOfChunk.         *)
(***************************************************************************)
EXTENDS Integers, Sequences, FiniteSets, TLC

(***************************************************************************)
(* Bounds of the model.                                                    *)
(***************************************************************************)
\* longest token string enumerated for the decoder
MaxTokLen == 5
\* most file-system calls that fail within one operation
MaxFaults == 1
\* most failed polls counted per address
MaxFails == 2
\* the time after the call of waitForUrls up to which time is counted, in ms
MaxElapsed == 1000

(***************************************************************************)
(* JavaScript values.                                                      *)
(***************************************************************************)
Undef == [t |-> "undef", b |-> FALSE, n |-> 0, s |-> <<>>]
Null == [t |-> "null", b |-> FALSE, n |-> 0, s |-> <<>>]
Bool(x) == [t |-> "bool", b |-> x, n |-> 0, s |-> <<>>]
Num(x) == [t |-> "num", b |-> FALSE, n |-> x, s |-> <<>>]
Str(x) == [t |-> "str", b |-> FALSE, n |-> 0, s |-> x]

\* JavaScript truthiness: undefined, null, false, 0 and "" are falsy
Truthy(v) ==
  CASE v.t = "undef" -> FALSE
    [] v.t = "null" -> FALSE
    [] v.t = "bool" -> v.b
    [] v.t = "num" -> v.n # 0
    [] v.t = "str" -> v.s # <<>>

\* the outcome of a call: a returned value or a thrown exception
Ret(v) == [threw |-> FALSE, val |-> v]
Throw(v) == [threw |-> TRUE, val |-> v]

(***************************************************************************)
(* Credential decoder: decodeJWT, base64UrlDecode, isJWTExpired.           *)
(***************************************************************************)
\* a parsed JSON object of a token segment; nul = the JSON text "null"
JsonObj(isNull, exp, alg) == [nul |-> isNull, exp |-> exp, alg |-> alg]
NoJson == JsonObj(TRUE, Undef, Undef)

\* the decoded chunk alphabet: the JSON text each chunk character stands for
\*   h  {"alg":"HS256"}     p  {"exp":1000}     q  {"exp":1300}
\*   z  {}  (no exp)        o  {"exp":0}        n  null
\*   any other character: bytes that are no JSON text
jsonOfChunk(c) ==
  CASE c = "h" -> Ret(JsonObj(FALSE, Undef, Str(<<"H">>)))
    [] c = "p" -> Ret(JsonObj(FALSE, Num(1000), Undef))
    [] c = "q" -> Ret(JsonObj(FALSE, Num(1300), Undef))
    [] c = "z" -> Ret(JsonObj(FALSE, Undef, Undef))
    [] c = "o" -> Ret(JsonObj(FALSE, Num(0), Undef))
    [] c = "n" -> Ret(NoJson)
    [] OTHER -> Throw(NoJson)

\* JSON.parse(base64UrlDecode(seg)): base64UrlDecode never throws (Buffer.from
\* skips what it cannot decode); the empty text and the concatenation of two
\* JSON texts are no JSON text, so JSON.parse throws on them
parseSegment(seg) ==
  IF Len(seg) = 1 THEN jsonOfChunk(seg[1]) ELSE Throw(NoJson)

\* String.prototype.split("."): the segments between the dots, empty ones kept
RECURSIVE splitFrom(_, _, _)
splitFrom(s, i, cur) ==
  IF i > Len(s) THEN <<cur>>
  ELSE IF s[i] = "." THEN <<cur>> \o splitFrom(s, i + 1, <<>>)
  ELSE splitFrom(s, i + 1, Append(cur, s[i]))

split(s) == splitFrom(s, 1, <<>>)

\* the value decodeJWT returns: ok = FALSE is null
Decoded(h, p, sig) == [ok |-> TRUE, header |-> h, payload |-> p, signature |-> sig]
NoDecoded == [ok |-> FALSE, header |-> NoJson, payload |-> NoJson, signature |-> <<>>]

\* a catch block that returns v: the result r of the try block unless it
\* threw
Caught(r, v) == IF r.threw THEN Ret(v) ELSE r

\* header and payload parsed (h, p: the outcomes of the two JSON.parse
\* calls), the object is returned
decodeSegments(h, p, sig) ==
  IF h.threw \/ p.threw THEN Throw(NoDecoded)
  ELSE Ret(Decoded(h.val, p.val, sig))

\* parts.length !== 3 is the only test made on the segments
decodeParts(parts) ==
  IF Len(parts) # 3 THEN Ret(NoDecoded)
  ELSE decodeSegments(parseSegment(parts[1]), parseSegment(parts[2]), parts[3])

\* the try block of decodeJWT; token.split of a truthy non-string throws
decodeJWTBody(token) ==
  IF ~Truthy(token) THEN Ret(NoDecoded)
  ELSE IF token.t # "str" THEN Throw(NoDecoded)
  ELSE decodeParts(split(token.s))

\* decodeJWT without its catch: the exception escapes
decodeJWT_NoCatch(token) == decodeJWTBody(token)

decodeJWT(token) == Caught(decodeJWTBody(token), NoDecoded)

\* the try block of isJWTExpired; reading .exp of a null payload throws
expiredOf(decoded, now) ==
  IF ~decoded.ok THEN Ret(TRUE)
  ELSE IF decoded.payload.nul THEN Throw(TRUE)
  ELSE IF ~Truthy(decoded.payload.exp) THEN Ret(TRUE)
  ELSE Ret(decoded.payload.exp.n < (now \div 1000))

isJWTExpiredBody(token, now) == expiredOf(decodeJWT(token).val, now)

isJWTExpired(token, now) == Caught(isJWTExpiredBody(token, now), TRUE)

(***************************************************************************)
(* Credential records and the cache file.                                  *)
(***************************************************************************)
\* the properties of a credential object, in the order saveTokenToCache
\* builds cacheData
Fields == <<"jwt", "isNIEUser", "isLDAPEnabled", "hasGroupAccess", "key",
            "cachedAt", "expiresAt">>
FieldSet == {Fields[i] : i \in 1..Len(Fields)}

\* a JavaScript object reference: null, or an object whose absent properties
\* read as undefined
Obj(f) == [nul |-> FALSE, f |-> f]
NullObj == [nul |-> TRUE, f |-> [x \in FieldSet |-> Undef]]

\* the cache file: absent, or a text; closed = FALSE is a text cut short
\* (a write that failed part-way), which JSON.parse rejects
FileText(entries, closed) == [exists |-> TRUE, entries |-> entries, closed |-> closed]
NoFile == [exists |-> FALSE, entries |-> <<>>, closed |-> FALSE]

\* JSON.stringify(cacheData, null, 2): the properties in order, those whose
\* value is undefined left out
RECURSIVE entriesFrom(_, _)
entriesFrom(o, i) ==
  IF i > Len(Fields) THEN <<>>
  ELSE (IF o.f[Fields[i]].t = "undef" THEN <<>>
        ELSE << <<Fields[i], o.f[Fields[i]]>> >>) \o entriesFrom(o, i + 1)

stringify(o) == FileText(entriesFrom(o, 1), TRUE)

\* JSON.parse giving null for a key the text does not hold
parse_Fabricates(text) ==
  IF ~text.closed THEN Throw(NullObj)
  ELSE Ret(Obj([x \in FieldSet |->
         IF \E i \in 1..Len(text.entries) : text.entries[i][1] = x
         THEN text.entries[CHOOSE i \in 1..Len(text.entries) :
                             text.entries[i][1] = x][2]
         ELSE IF x = "key" THEN Null ELSE Undef]))

\* JSON.parse of the file text
parse(text) ==
  IF ~text.closed THEN Throw(NullObj)
  ELSE Ret(Obj([x \in FieldSet |->
         IF \E i \in 1..Len(text.entries) : text.entries[i][1] = x
         THEN text.entries[CHOOSE i \in 1..Len(text.entries) :
                             text.entries[i][1] = x][2]
         ELSE Undef]))

(***************************************************************************)
(* Token expiry and the validity policy.                                   *)
(***************************************************************************)
\* decoded && decoded.payload.exp: reading .exp of a null payload throws
expirationOf(decoded) ==
  IF ~decoded.ok THEN Ret(Null)
  ELSE IF decoded.payload.nul THEN Throw(Null)
  ELSE IF Truthy(decoded.payload.exp) THEN Ret(Num(decoded.payload.exp.n * 1000))
  ELSE Ret(Null)

\* the try block of getTokenExpiration
getTokenExpirationBody(jwt) == expirationOf(decodeJWT(jwt).val)

getTokenExpiration(jwt) == Caught(getTokenExpirationBody(jwt), Null)

\* 5 * 60 * 1000 ms
bufferTime == 300000

\* isCachedTokenValid comparing with > where the code has >=
isCachedTokenValid_Strict(cachedToken, now) ==
  IF cachedToken.nul \/ ~Truthy(cachedToken.f["jwt"]) THEN FALSE
  ELSE IF Truthy(cachedToken.f["expiresAt"])
          /\ now > cachedToken.f["expiresAt"].n - bufferTime THEN FALSE
  ELSE decodeJWT(cachedToken.f["jwt"]).val.ok

isCachedTokenValid(cachedToken, now) ==
  IF cachedToken.nul \/ ~Truthy(cachedToken.f["jwt"]) THEN FALSE
  ELSE IF Truthy(cachedToken.f["expiresAt"])
          /\ now >= cachedToken.f["expiresAt"].n THEN FALSE
  ELSE IF Truthy(cachedToken.f["expiresAt"])
          /\ now >= cachedToken.f["expiresAt"].n - bufferTime THEN FALSE
  ELSE IF ~decodeJWT(cachedToken.f["jwt"]).val.ok THEN FALSE
  ELSE TRUE

(***************************************************************************)
(* State of one run.                                                       *)
(***************************************************************************)
VARIABLES
  file,          \* the cache file ~/.n8n-desktop/jwt-cache.json
  dir,           \* TRUE when the directory ~/.n8n-desktop exists
  cachedToken,   \* this.cachedToken (of each run, where two runs race)
  now,           \* Date.now(), in ms
  last,          \* what the last completed call did and returned
  tok,           \* the token handed to the decoder
  rec,           \* the record handed to the validity policy
  res,           \* the outcome of the last decoder, policy or location call
  geo,           \* what the location lookups of one call run into
  proc,          \* the desktop process: where main() is, and its child (or the two racing runs)
  wait           \* the waitForUrls call of main()

vars == <<file, dir, cachedToken, now, last, tok, rec, res, geo, proc, wait>>

\* the part of the state the cache store reads and writes
Store == [file |-> file, dir |-> dir, cachedToken |-> cachedToken]

\* the outcome of a store call: the state it leaves and what it returns
Out(st, threw, ret) == [st |-> st, threw |-> threw, ret |-> ret]

\* a catch block of a store method that logs and returns v
CaughtOut(r, v) == IF r.threw THEN Out(r.st, FALSE, v) ELSE r

\* return v after the call whose outcome is c
Returning(c, v) == Out(c.st, c.threw, v)

(***************************************************************************)
(* Token cache store.  io gives the outcome of every file-system call:     *)
(*   ex             existsSync answers truthfully during the operation (it *)
(*                  never throws: on an error it answers false)            *)
(*   mk, rd, ul     mkdirSync, readFileSync, unlinkSync succeed            *)
(*   wr             writeFileSync: "ok", "fail" (file untouched) or        *)
(*                  "partial" (file left cut short)                        *)
(***************************************************************************)
\* the try block of clearTokenCache
clearTokenCacheBody(st, io) ==
  IF st.file.exists /\ io.ex
  THEN IF io.ul
       THEN Out([st EXCEPT !.file = NoFile, !.cachedToken = NullObj], FALSE, NullObj)
       ELSE Out(st, TRUE, NullObj)
  ELSE Out([st EXCEPT !.cachedToken = NullObj], FALSE, NullObj)

\* clearTokenCache without its catch
clearTokenCache_NoCatch(st, io) == clearTokenCacheBody(st, io)

clearTokenCache(st, io) == CaughtOut(clearTokenCacheBody(st, io), NullObj)

\* const cacheData = JSON.parse(...); this.cachedToken = cacheData
loadParsed(st, cacheData) ==
  IF cacheData.threw THEN Out(st, TRUE, NullObj)
  ELSE Out([st EXCEPT !.cachedToken = cacheData.val], FALSE, cacheData.val)

\* the try block of loadTokenFromCache
loadTokenFromCacheBody(st, io) ==
  IF st.file.exists /\ io.ex
  THEN IF ~io.rd THEN Out(st, TRUE, NullObj)
       ELSE loadParsed(st, parse(st.file))
  ELSE Out(st, FALSE, NullObj)

\* loadTokenFromCache whose catch does not clear the cache
loadTokenFromCache_NoClear(st, io) ==
  CaughtOut(loadTokenFromCacheBody(st, io), NullObj)

\* the catch block of loadTokenFromCache: clearTokenCache(), return null
loadCatch(r, io) ==
  IF r.threw THEN Returning(clearTokenCache(r.st, io), NullObj) ELSE r

loadTokenFromCache(st, io) == loadCatch(loadTokenFromCacheBody(st, io), io)

\* ensureCacheDirectory: mkdirSync with recursive does not fail on a
\* directory that exists already
ensureCacheDirectory(st, io) ==
  IF ~(st.dir /\ io.ex)
  THEN IF io.mk THEN Out([st EXCEPT !.dir = TRUE], FALSE, NullObj)
       ELSE Out(st, TRUE, NullObj)
  ELSE Out(st, FALSE, NullObj)

\* cacheData of saveTokenToCache
cacheDataOf(tokenData, t) ==
  Obj([x \in FieldSet |->
        CASE x = "cachedAt" -> Num(t)
          [] x = "expiresAt" -> getTokenExpiration(tokenData.f["jwt"]).val
          [] OTHER -> tokenData.f[x]])

\* the text a write that fails part-way leaves behind
cutShort(text) == FileText(SubSeq(text.entries, 1, 1), FALSE)

\* fs.writeFileSync(..., JSON.stringify(cacheData)); this.cachedToken =
\* cacheData; return true
writeCache(st, cacheData, io) ==
  CASE io.wr = "ok" ->
         Out([st EXCEPT !.file = stringify(cacheData),
                        !.cachedToken = cacheData], FALSE, Bool(TRUE))
    [] io.wr = "partial" ->
         Out([st EXCEPT !.file = cutShort(stringify(cacheData))],
             TRUE, Bool(FALSE))
    [] OTHER -> Out(st, TRUE, Bool(FALSE))

\* the try block of saveTokenToCache after ensureCacheDirectory, whose
\* outcome is d; reading tokenData.jwt of null throws
saveEnsured(d, tokenData, t, io) ==
  IF d.threw THEN Out(d.st, TRUE, Bool(FALSE))
  ELSE IF tokenData.nul THEN Out(d.st, TRUE, Bool(FALSE))
  ELSE writeCache(d.st, cacheDataOf(tokenData, t), io)

\* the try block of saveTokenToCache
saveTokenToCacheBody(st, tokenData, t, io) ==
  saveEnsured(ensureCacheDirectory(st, io), tokenData, t, io)

\* saveTokenToCache whose catch reports success
saveTokenToCache_CatchReturnsTrue(st, tokenData, t, io) ==
  CaughtOut(saveTokenToCacheBody(st, tokenData, t, io), Bool(TRUE))

saveTokenToCache(st, tokenData, t, io) ==
  CaughtOut(saveTokenToCacheBody(st, tokenData, t, io), Bool(FALSE))

(***************************************************************************)
(* Credential acquisition and the access gate.                             *)
(***************************************************************************)
\* getJWTInfo reads decoded.payload.exp and decoded.header.alg outside any
\* try block: a token whose header or payload is the JSON null makes
\* displayJWTInfo throw
infoThrows(decoded) ==
  decoded.ok /\ (decoded.payload.nul \/ decoded.header.nul)

displayJWTInfoThrows(jwt) == infoThrows(decodeJWT(jwt).val)

\* the outcome of the remote exchange: fetch rejects ("neterr"), the answer
\* is not 2xx ("http"), or it is 2xx with the JSON value data ("ok")
Net(kind, data) == [kind |-> kind, data |-> data]

\* the try block of performSSOLogin: getSystemInfoWithPublicIP catches its
\* own failures, then one POST is made
performSSOLoginBody(st, net) ==
  IF net.kind # "ok" THEN Out(st, TRUE, NullObj)
  ELSE IF net.data.nul THEN Out(st, TRUE, NullObj)
  ELSE IF Truthy(net.data.f["jwt"])
  THEN IF displayJWTInfoThrows(net.data.f["jwt"]) THEN Out(st, TRUE, NullObj)
       ELSE Out(st, FALSE, net.data)
  ELSE Out(st, FALSE, net.data)

performSSOLogin(st, net) == CaughtOut(performSSOLoginBody(st, net), NullObj)

\* what getValidToken did: the state it leaves, what it returns, the record
\* it loaded, how often it invoked performSSOLogin, and what save returned
Gate(st, threw, ret, cached, ssoCalls, saved) ==
  [st |-> st, threw |-> threw, ret |-> ret, cached |-> cached,
   ssoCalls |-> ssoCalls, saved |-> saved]

\* this.saveTokenToCache(tokenData); return tokenData: sv is the outcome
\* of the save, of which only the state it leaves is used
gateSaved(l, a, sv) ==
  Gate(sv.st, l.threw \/ a.threw \/ sv.threw, a.ret, l.ret, 1,
       IF sv.ret.b THEN "ok" ELSE "failed")

\* if (tokenData) { save; return tokenData } return null: a is the outcome
\* of performSSOLogin
gateLogin(l, a, t, io) ==
  IF ~a.ret.nul
  THEN gateSaved(l, a, saveTokenToCache(a.st, a.ret, t, io))
  ELSE Gate(a.st, l.threw \/ a.threw, NullObj, l.ret, 1, "none")

\* getValidToken after loadTokenFromCache, whose outcome is l
gateLoad(l, net, t, io) ==
  IF isCachedTokenValid(l.ret, t)
  THEN Gate(l.st, l.threw, l.ret, l.ret, 0, "none")
  ELSE gateLogin(l, performSSOLogin(l.st, net), t, io)

\* a second exchange when the first one failed
secondLogin(l, a, b) ==
  Gate(b.st, l.threw \/ a.threw \/ b.threw, NullObj, l.ret, 2, "none")
retryLogin(l, a, net, t, io) ==
  IF ~a.ret.nul THEN gateLogin(l, a, t, io)
  ELSE secondLogin(l, a, performSSOLogin(a.st, net))
retryLoad(l, net, t, io) ==
  IF isCachedTokenValid(l.ret, t) THEN gateLoad(l, net, t, io)
  ELSE retryLogin(l, performSSOLogin(l.st, net), net, t, io)

\* getValidToken that asks the server again when the first exchange failed
getValidToken_Retry(st, net, t, io) ==
  retryLoad(loadTokenFromCache(st, io), net, t, io)

\* the exchange made whatever the cache holds
askAnyway(l, net, t, io) == gateLogin(l, performSSOLogin(l.st, net), t, io)

\* getValidToken that asks the server although the cached record is valid
getValidToken_AlwaysAsks(st, net, t, io) ==
  askAnyway(loadTokenFromCache(st, io), net, t, io)

\* getValidToken at clock reading t (the clock readings of the model are
\* further apart than one call lasts)
getValidToken(st, net, t, io) ==
  gateLoad(loadTokenFromCache(st, io), net, t, io)

\* what a call of initialize went through: the failure class it ran into
\* ("none", "notoken", "permission", "nothing", "error"), the number of
\* cache reads and of exchanges it made, the credential getValidToken
\* handed to it
Went(class, loads, ssoCalls, cred) ==
  [class |-> class, loads |-> loads, ssoCalls |-> ssoCalls, cred |-> cred]

\* how a call of initialize ends: how is "return" (ret is the boolean
\* returned), "throw" (an exception leaves initialize) or "exit" (the
\* process is ended with exit status code)
Ended(st, how, ret, code, went) ==
  [st |-> st, how |-> how, ret |-> ret, code |-> code, went |-> went]

\* this.exitProcess(code): class LMSIntegration defines no exitProcess and
\* nothing assigns one, so the call is a call of undefined: it throws a
\* TypeError and the process is not ended
exitProcess(st, code, went) == Ended(st, "throw", FALSE, 0, went)

\* the access test of initialize
hasAccess(tokenData) ==
  \/ Truthy(tokenData.f["hasGroupAccess"])
  \/ Truthy(tokenData.f["isNIEUser"])
  \/ Truthy(tokenData.f["isLDAPEnabled"])

\* the try block of initialize, g being what getValidToken did
initializeBody(g, exitOnFailure) ==
  IF g.threw
  THEN Ended(g.st, "throw", FALSE, 0, Went("error", 1, g.ssoCalls, g.ret))
  ELSE IF ~g.ret.nul
  THEN IF hasAccess(g.ret)
       THEN Ended(g.st, "return", TRUE, 0, Went("none", 1, g.ssoCalls, g.ret))
       ELSE IF exitOnFailure
            THEN exitProcess(g.st, 2, Went("permission", 1, g.ssoCalls, g.ret))
            ELSE Ended(g.st, "return", TRUE, 0,
                       Went("permission", 1, g.ssoCalls, g.ret))
  ELSE IF exitOnFailure
       THEN exitProcess(g.st, 3, Went("nothing", 1, g.ssoCalls, g.ret))
       ELSE Ended(g.st, "return", FALSE, 0,
                  Went("nothing", 1, g.ssoCalls, g.ret))

\* the catch block of initialize
initializeCatch(r, exitOnFailure) ==
  IF r.how # "throw" THEN r
  ELSE IF exitOnFailure THEN exitProcess(r.st, 4, r.went)
       ELSE Ended(r.st, "return", FALSE, 0, r.went)

\* initialize reporting a credential without access as a failure
deniesAccess(r) ==
  IF r.went.class = "permission" THEN [r EXCEPT !.ret = FALSE] ELSE r

\* initialize returning false when the credential grants no access
initialize_DeniesAccess(st, bearerToken, exitOnFailure, net, t, io) ==
  IF ~Truthy(bearerToken)
  THEN Ended(st, "return", FALSE, 0, Went("notoken", 0, 0, NullObj))
  ELSE deniesAccess(
         initializeCatch(initializeBody(getValidToken(st, net, t, io),
                                        exitOnFailure), exitOnFailure))

\* initialize(bearerToken, exitOnFailure)
initialize(st, bearerToken, exitOnFailure, net, t, io) ==
  IF ~Truthy(bearerToken)
  THEN IF exitOnFailure
       THEN exitProcess(st, 1, Went("notoken", 0, 0, NullObj))
       ELSE Ended(st, "return", FALSE, 0, Went("notoken", 0, 0, NullObj))
  ELSE initializeCatch(initializeBody(getValidToken(st, net, t, io),
                                      exitOnFailure), exitOnFailure)

\* getJWTInfo(token): token || this.jwtToken is decoded outside any try
\* block, and reading .exp of a null payload or .alg of a null header throws
getJWTInfoThrows(jwt, jwtToken) ==
  infoThrows(decodeJWT(IF Truthy(jwt) THEN jwt ELSE jwtToken).val)

\* getTokenStatus once cachedToken = this.cachedToken || load() is known,
\* l being the state and the record
statusOf(l, jwtToken) ==
  IF l.ret.nul THEN Out(l.st, FALSE, NullObj)
  ELSE Out(l.st, getJWTInfoThrows(l.ret.f["jwt"], jwtToken), NullObj)

\* getTokenStatus(): it has no try block of its own
getTokenStatus(st, jwtToken, io) ==
  IF ~st.cachedToken.nul THEN statusOf(Out(st, FALSE, st.cachedToken), jwtToken)
  ELSE statusOf(loadTokenFromCache(st, io), jwtToken)

\* refreshToken(bearerToken): clearTokenCache(), then getValidToken
refreshToken(st, net, t, ioClear, io) ==
  getValidToken(clearTokenCache(st, ioClear).st, net, t, io)

(***************************************************************************)
(* The desktop process (src/index.js): initializeLMS and the steps of      *)
(* main up to the launch of the child.                                     *)
(***************************************************************************)
\* how initializeLMS ends: "ok" (true returned), "failed" (false returned),
\* "threw" (its promise rejects)
Resolved(st, outcome) == [st |-> st, outcome |-> outcome]

\* this.jwtToken after initialize: set by getValidToken from a valid cached
\* record, and by performSSOLogin from an answer that carries a jwt
jwtTokenAfter(g, net) ==
  IF g.ssoCalls = 0 THEN g.ret.f["jwt"]
  ELSE IF net.kind = "ok" /\ ~net.data.nul /\ Truthy(net.data.f["jwt"])
  THEN net.data.f["jwt"]
  ELSE Undef

\* initializeLMS after initialize returned true: the final token status
lmsFinal(s2) ==
  IF s2.threw THEN Resolved(s2.st, "threw") ELSE Resolved(s2.st, "ok")

\* initializeLMS after initialize, r being how it ended
lmsInitialized(r, jwtToken, io) ==
  IF r.how = "throw" THEN Resolved(r.st, "threw")
  ELSE IF r.how = "exit" THEN Resolved(r.st, "exit")
  ELSE IF r.ret THEN lmsFinal(getTokenStatus(r.st, jwtToken, io))
  ELSE Resolved(r.st, "failed")

\* initializeLMS after the first getTokenStatus, s1 being its outcome;
\* initialize is called with exitOnFailure left to its default, true
lmsStatus(s1, bearerToken, net, t, io) ==
  IF s1.threw THEN Resolved(s1.st, "threw")
  ELSE lmsInitialized(initialize(s1.st, bearerToken, TRUE, net, t, io),
                      jwtTokenAfter(getValidToken(s1.st, net, t, io), net), io)

\* initializeLMS(): a new LMSIntegration on the cache file as it is
initializeLMS(st, bearerToken, net, t, io) ==
  IF ~Truthy(bearerToken) THEN Resolved(st, "failed")
  ELSE lmsStatus(getTokenStatus([st EXCEPT !.cachedToken = NullObj], Undef, io),
                 bearerToken, net, t, io)

\* main going on although the access gate failed
afterGate_GoesOn(outcome) == "probe"

\* main after await initializeLMS(): go on, show the access-denied dialog
\* and exit, or (a rejection, caught by main) exit
afterGate(outcome) ==
  CASE outcome = "ok" -> "probe"
    [] outcome = "failed" -> "denied"
    [] OTHER -> "exited"

\* shouldInit false whenever the port is in use
shouldInit_PortOnly(bgEnabled, portInUse) == ~portInUse

\* const shouldInit = !bgEnabled || !portInUse
shouldInit(bgEnabled, portInUse) == ~bgEnabled \/ ~portInUse

\* the child main starts: execFile on macOS and fork on Windows in
\* development, respawn in production, none when shouldInit is false
launch(isDev, platform, init) ==
  IF isDev /\ init
  THEN CASE platform = "darwin" -> "execFile"
         [] platform = "win32" -> "fork"
         [] OTHER -> "none"
  ELSE IF ~isDev /\ init THEN "respawn"
  ELSE "none"

\* the development block: the children it creates
devLaunch(isDev, platform, init) ==
  IF isDev /\ init
  THEN {k \in {"execFile", "fork"} :
          \/ k = "execFile" /\ platform = "darwin"
          \/ k = "fork" /\ platform = "win32"}
  ELSE {}

\* the production block entered in every mode
prodLaunch_AnyMode(isDev, init) == IF init THEN {"respawn"} ELSE {}

\* the production block (isProd = !isDev): the children it creates
prodLaunch(isDev, init) == IF ~isDev /\ init THEN {"respawn"} ELSE {}

\* maxRestarts: 10 in the options given to respawn
maxRestarts == 10

\* every child restarted after it exits
restartsChild_Any(kind) == TRUE

\* a child that is started again after it exits: only the one respawn
\* monitors; execFile and fork create a process and nothing in main
\* creates it again
restartsChild(kind) == kind = "respawn"

\* the signal reaching every child
abortKills_Any(kind) == TRUE

\* a child created with { signal }: the abort of the controller ends it
abortKills(kind) == kind \in {"execFile", "fork"}

\* the monitor of respawn after its child exited: it starts the child
\* again while fewer than maxRestarts restarts were made and gives up for
\* good otherwise
afterExit(restarted) ==
  IF restarted < maxRestarts THEN "Running" ELSE "Terminal"

(***************************************************************************)
(* Inputs.                                                                 *)
(***************************************************************************)
\* tokens: exp 1000 s, exp 1300 s, no exp, empty signature, null payload,
\* not a token
TokP == <<"h", ".", "p", ".", "x">>
TokQ == <<"h", ".", "q", ".", "x">>
TokZ == <<"h", ".", "z", ".", "x">>
TokNoSig == <<"h", ".", "p", ".">>
TokNullPayload == <<"h", ".", "n", ".", "x">>
TokBad == <<"x">>

\* a JSON answer of the server
Response(jwt, nie, ldap, grp, key, cachedAt, expiresAt) ==
  Obj([x \in FieldSet |->
        CASE x = "jwt" -> jwt
          [] x = "isNIEUser" -> nie
          [] x = "isLDAPEnabled" -> ldap
          [] x = "hasGroupAccess" -> grp
          [] x = "key" -> key
          [] x = "cachedAt" -> cachedAt
          [] x = "expiresAt" -> expiresAt])

KeyK == Str(<<"k">>)

Responses ==
  { Response(Str(TokP), Bool(FALSE), Bool(FALSE), Bool(TRUE), KeyK, Undef, Undef),
    Response(Str(TokQ), Bool(FALSE), Bool(FALSE), Bool(FALSE), KeyK, Num(1), Num(999)),
    Response(Str(TokZ), Bool(TRUE), Bool(FALSE), Bool(FALSE), Undef, Undef, Undef),
    Response(Undef, Bool(FALSE), Bool(FALSE), Bool(TRUE), Undef, Undef, Undef) }

NetOutcomes ==
  {Net(k, NullObj) : k \in {"neterr", "http", "ok"}}
    \cup {Net("ok", d) : d \in Responses}

\* the clock readings of a run, in ms: TokP (expiresAt 1000000) is valid at
\* the first and inside the buffer at the second, TokQ (1300000) is valid
\* at both
ClockValues == {400000, 900000}

\* the outcomes of the file-system calls of one operation
WriteOutcomes == {"ok", "fail", "partial"}
Faults(io) ==
  Cardinality({x \in {"ex", "mk", "rd", "ul"} : ~io[x]})
    + (IF io.wr = "ok" THEN 0 ELSE 1)
IOSet ==
  {io \in [ex : BOOLEAN, mk : BOOLEAN, rd : BOOLEAN, ul : BOOLEAN,
           wr : WriteOutcomes] : Faults(io) <= MaxFaults}
\* the calls save, load and clear make
SaveIO == {io \in IOSet : io.rd /\ io.ul}
LoadIO == {io \in IOSet : io.mk /\ io.wr = "ok"}
ClearIO == {io \in LoadIO : io.rd}

(***************************************************************************)
(* One run: the cache store and the access gate as called by a client.     *)
(***************************************************************************)
NoCall == [op |-> "none"]
NoRes == [op |-> "none"]
\* no location lookup, no main(), no waitForUrls under way
NoGeo == [op |-> "none"]
NoProc ==
  [pc |-> "none", isDev |-> FALSE, platform |-> "linux", token |-> Undef,
   gate |-> "pending", bgEnabled |-> FALSE, portInUse |-> FALSE,
   shouldInit |-> FALSE, child |-> "none", exit |-> 0 - 1,
   kinds |-> {}, alive |-> {}, sup |-> "NotStarted", restarts |-> 0,
   aborted |-> FALSE, revived |-> FALSE]
NoWait == [pc |-> "none"]

\* the addresses main waits for: N8N_HEALTH_URL and N8N_URL
Urls == {"healthz", "root"}

Init ==
  /\ file = NoFile
  /\ dir = FALSE
  /\ cachedToken = NullObj
  /\ now \in ClockValues
  /\ last = NoCall
  /\ tok = Undef
  /\ rec = NullObj
  /\ res = NoRes
  /\ geo = NoGeo
  /\ proc = NoProc
  /\ wait = NoWait

Install(st) ==
  /\ file' = st.file
  /\ dir' = st.dir
  /\ cachedToken' = st.cachedToken

\* time passes
Tick ==
  /\ \E t \in ClockValues : t > now /\ now' = t
  /\ UNCHANGED <<file, dir, cachedToken, last, tok, rec, res, geo, proc, wait>>

\* saveTokenToCache(tokenData)
Save ==
  \E tokenData \in Responses \cup {NullObj}, io \in SaveIO :
    \E r \in {saveTokenToCache(Store, tokenData, now, io)} :
      /\ Install(r.st)
      /\ last' = [op |-> "save", threw |-> r.threw, ret |-> r.ret.b,
                  input |-> tokenData, at |-> now, io |-> io,
                  preDir |-> dir]
      /\ UNCHANGED <<now, tok, rec, res, geo, proc, wait>>

\* loadTokenFromCache(); a load that follows a save remembers what was saved
Load ==
  \E io \in LoadIO :
    \E r \in {loadTokenFromCache(Store, io)} :
      /\ Install(r.st)
      /\ last' = [op |-> "load", threw |-> r.threw, ret |-> r.ret, io |-> io,
                  preExists |-> file.exists, preClosed |-> file.closed,
                  afterSave |-> last.op = "save" /\ last.ret,
                  input |-> IF last.op = "save" THEN last.input ELSE NullObj,
                  saved |-> IF last.op = "save" THEN cachedToken ELSE NullObj,
                  at |-> IF last.op = "save" THEN last.at ELSE 0]
      /\ UNCHANGED <<now, tok, rec, res, geo, proc, wait>>

\* clearTokenCache(); origin is the state before the first of a run of
\* consecutive clears
Clear ==
  \E io \in ClearIO :
    \E r \in {clearTokenCache(Store, io)} :
      /\ Install(r.st)
      /\ last' = [op |-> "clear", threw |-> r.threw, io |-> io,
                  preExists |-> file.exists,
                  afterClear |-> last.op = "clear",
                  origin |-> IF last.op = "clear" THEN last.origin ELSE Store]
      /\ UNCHANGED <<now, tok, rec, res, geo, proc, wait>>

\* getValidToken(bearerToken)
GetValidToken ==
  \E net \in NetOutcomes, io \in IOSet :
    \E r \in {getValidToken(Store, net, now, io)} :
      /\ Install(r.st)
      /\ last' = [op |-> "getValidToken", threw |-> r.threw, ret |-> r.ret,
                  cached |-> r.cached, ssoCalls |-> r.ssoCalls,
                  saved |-> r.saved, net |-> net.kind, at |-> now,
                  preExists |-> file.exists, preClosed |-> file.closed]
      /\ UNCHANGED <<now, tok, rec, res, geo, proc, wait>>

Next == Tick \/ Save \/ Load \/ Clear \/ GetValidToken

Spec == Init /\ [][Next]_vars

(***************************************************************************)
(* Properties of the access gate and the cache store.                      *)
(***************************************************************************)
\* the properties a credential carries from the server to the cache
PassThrough == {"jwt", "isNIEUser", "isLDAPEnabled", "hasGroupAccess", "key"}

\* the file holds a complete record with the token, flags and key of o
FileCarries(o) ==
  /\ file.exists
  /\ file.closed
  /\ \A x \in PassThrough : parse(file).val.f[x] = o.f[x]

\* C2: when the record getValidToken loads from the cache is one that
\* isCachedTokenValid accepts at the time of the call, getValidToken
\* returns that record unchanged, leaves the cache file holding it, and
\* invokes performSSOLogin zero times.
C2_ValidCacheNoAcquisition ==
  (last.op = "getValidToken" /\ isCachedTokenValid(last.cached, last.at))
    => /\ last.ret = last.cached
       /\ last.ssoCalls = 0
       /\ ~last.threw
       /\ file.exists /\ file.closed /\ parse(file).val = last.ret

\* the scenario of the spec: the cache holds a token with
\* expiresAt = now + 600000 and getValidToken hands it back
C2_Witness ==
  /\ last.op = "getValidToken"
  /\ ~last.cached.nul
  /\ last.cached.f["expiresAt"] = Num(last.at + 600000)
  /\ last.ret = last.cached
  /\ last.ssoCalls = 0

\* C3: when the cache is absent, corrupted or holds a record that
\* isCachedTokenValid rejects, one call of getValidToken invokes
\* performSSOLogin exactly once, throws nothing, and returns null when the
\* exchange fails (network error, non-2xx answer, or a null body).
C3_InvalidCacheOneAcquisition ==
  (last.op = "getValidToken" /\ ~isCachedTokenValid(last.cached, last.at))
    => /\ last.ssoCalls = 1
       /\ ~last.threw
       /\ (last.net # "ok" => last.ret.nul)

\* the scenario of the spec: the cached token expires in 100000 ms (inside
\* the buffer), the server answers non-2xx, one exchange, null returned
C3_Witness ==
  /\ last.op = "getValidToken"
  /\ ~last.cached.nul
  /\ last.cached.f["expiresAt"] = Num(last.at + 100000)
  /\ last.net = "http"
  /\ last.ssoCalls = 1
  /\ last.ret.nul

\* C3, the other two cases: no cache file, and a cache file cut short
C3_WitnessAbsent ==
  last.op = "getValidToken" /\ ~last.preExists /\ last.ssoCalls = 1
C3_WitnessCorrupted ==
  /\ last.op = "getValidToken" /\ last.preExists /\ ~last.preClosed
  /\ last.ssoCalls = 1 /\ last.net = "neterr" /\ last.ret.nul

\* C4 as stated: whenever getValidToken returns a freshly acquired
\* credential, the cache file holds a record with the same token, flags
\* and key.
C4_FreshIsPersisted ==
  (last.op = "getValidToken" /\ last.ssoCalls = 1 /\ ~last.ret.nul)
    => FileCarries(last.ret)

\* C4 as amended: whenever getValidToken returns a freshly acquired
\* credential, saveTokenToCache has been called on it before the return;
\* if that save succeeded the cache file holds a record with the same
\* token, flags and key; the result of the save is not looked at, and the
\* credential is returned also when the save failed.
C4_FreshIsSavedFirst ==
  (last.op = "getValidToken" /\ last.ssoCalls = 1 /\ ~last.ret.nul)
    => /\ last.saved \in {"ok", "failed"}
       /\ (last.saved = "ok" => FileCarries(last.ret))

\* a fresh credential was saved and returned
C4_Witness ==
  /\ last.op = "getValidToken" /\ last.ssoCalls = 1 /\ ~last.ret.nul
  /\ last.saved = "ok"
  /\ FileCarries(last.ret)
  /\ Truthy(last.ret.f["jwt"])

\* a fresh credential was returned although its save failed
C4_WitnessSaveFailed ==
  /\ last.op = "getValidToken" /\ last.ssoCalls = 1 /\ ~last.ret.nul
  /\ last.saved = "failed"
  /\ ~file.exists

\* C5 as stated: one load of a cache file that exists and cannot be parsed
\* returns null and leaves no cache file.
C5_CorruptFileRemoved ==
  (last.op = "load" /\ last.preExists /\ ~last.preClosed)
    => (last.ret.nul /\ ~file.exists)

\* C5 as amended: one load of a cache file that exists and cannot be parsed
\* returns null without throwing, and leaves no cache file whenever the
\* existence checks answer truthfully and the unlink succeeds; when
\* existsSync answers false or unlinkSync fails, the corrupted file stays.
C5_CorruptFileRemovedIfUnlinked ==
  (last.op = "load" /\ last.preExists /\ ~last.preClosed)
    => /\ last.ret.nul
       /\ ~last.threw
       /\ ((last.io.ex /\ last.io.ul) => ~file.exists)
       /\ (~(last.io.ex /\ last.io.ul) => (file.exists /\ ~file.closed))

\* a corrupted file was loaded and removed
C5_Witness ==
  /\ last.op = "load" /\ last.preExists /\ ~last.preClosed
  /\ last.io.ex /\ last.io.ul
  /\ last.ret.nul /\ ~file.exists

\* C6: a load that follows a successful save, and yields a record, yields
\* the record save stored: equal to it in every property, carrying the
\* token, flags and key handed to save, the time of the save as cachedAt,
\* and no property the file text does not hold.
C6_RoundTrip ==
  (last.op = "load" /\ last.afterSave /\ ~last.ret.nul)
    => /\ last.ret = last.saved
       /\ \A x \in PassThrough : last.ret.f[x] = last.input.f[x]
       /\ last.ret.f["cachedAt"] = Num(last.at)
       /\ \A x \in FieldSet :
            last.ret.f[x] # Undef
              => \E i \in 1..Len(file.entries) : file.entries[i][1] = x

\* a record without a key was saved and loaded back without one
C6_Witness ==
  /\ last.op = "load" /\ last.afterSave /\ ~last.ret.nul
  /\ Truthy(last.ret.f["jwt"])
  /\ last.input.f["key"] = Undef
  /\ last.ret.f["key"] = Undef

\* every outcome of the file-system calls of clear
AllClearIO ==
  [ex : BOOLEAN, mk : {TRUE}, rd : {TRUE}, ul : BOOLEAN, wr : {"ok"}]

\* C7: no exception escapes the cache store: save returns false when the
\* directory cannot be created or the write fails, load returns null when
\* the read fails or the file is not seen, clear returns normally; and
\* clear is idempotent: after two clears in a row the file and
\* this.cachedToken are in a state one clear leaves, and a clear repeated
\* under the same file-system outcomes changes nothing.
C7_StoreNeverThrows ==
  /\ (last.op = "save")
       => /\ ~last.threw
          /\ (last.io.wr # "ok" => ~last.ret)
          /\ ((~last.io.mk /\ ~(last.preDir /\ last.io.ex)) => ~last.ret)
          /\ (last.input.nul => ~last.ret)
          /\ (last.ret => FileCarries(last.input))
  /\ (last.op = "load")
       => /\ ~last.threw
          /\ ((~last.io.rd \/ ~last.io.ex) => last.ret.nul)
  /\ (last.op = "clear")
       => /\ ~last.threw
          /\ (last.afterClear
                => \E io \in AllClearIO :
                     clearTokenCache(last.origin, io).st = Store)
          /\ ((last.afterClear /\ ~last.preExists)
                => (~file.exists /\ cachedToken = NullObj))

\* a clear with no cache file, after a clear, and a failed unlink before
C7_Witness ==
  /\ last.op = "clear" /\ last.afterClear /\ ~last.preExists
  /\ last.origin.file.exists

\* the I/O failures happen: a failed write, a failed read, a failed unlink
C7_WitnessSaveFails ==
  last.op = "save" /\ last.io.wr = "partial" /\ ~last.ret /\ file.exists
C7_WitnessLoadFails ==
  last.op = "load" /\ last.preExists /\ ~last.io.rd /\ last.ret.nul
C7_WitnessClearFails ==
  last.op = "clear" /\ last.preExists /\ ~last.io.ul /\ file.exists

(***************************************************************************)
(* The access gate as its callers use it: initialize and refreshToken on   *)
(* a cache that earlier saves have filled.                                 *)
(***************************************************************************)
\* bearer tokens: undefined, the empty string, a token
NoBearerTokens == {Undef, Str(<<>>)}
BearerToken == Str(<<"b">>)

\* the outcome of the file-system calls when none fails
NoFault == [ex |-> TRUE, mk |-> TRUE, rd |-> TRUE, ul |-> TRUE, wr |-> "ok"]

\* what the last call of initialize did
Initialized(r, bearerToken, exitOnFailure) ==
  [op |-> "initialize", how |-> r.how, ret |-> r.ret, code |-> r.code,
   class |-> r.went.class, loads |-> r.went.loads,
   ssoCalls |-> r.went.ssoCalls, cred |-> r.went.cred,
   token |-> bearerToken, exitOnFailure |-> exitOnFailure]

\* the process has made no call of the gate yet
FirstCall == last.op = "none"

\* what earlier runs of the program left in the cache: a save of theirs
EarlierRun ==
  /\ FirstCall
  /\ \E tokenData \in Responses \cup {NullObj}, io \in SaveIO :
       \E r \in {saveTokenToCache(Store, tokenData, now, io)} :
         Install(r.st)
  /\ UNCHANGED <<now, last, tok, rec, res, geo, proc, wait>>

\* initialize(bearerToken, exitOnFailure), without a bearer token (the
\* server and the file system then have no part) and with one; a process
\* calls it once
Initialize ==
  \/ \E bearerToken \in NoBearerTokens, exitOnFailure \in BOOLEAN :
       \E r \in {initialize(Store, bearerToken, exitOnFailure,
                            Net("neterr", NullObj), now, NoFault)} :
         /\ FirstCall
         /\ Install(r.st)
         /\ last' = Initialized(r, bearerToken, exitOnFailure)
         /\ UNCHANGED <<now, tok, rec, res, geo, proc, wait>>
  \/ /\ FirstCall
     /\ \E exitOnFailure \in BOOLEAN, net \in NetOutcomes, io \in IOSet :
       \E r \in {initialize(Store, BearerToken, exitOnFailure, net, now, io)} :
         /\ Install(r.st)
         /\ last' = Initialized(r, BearerToken, exitOnFailure)
         /\ UNCHANGED <<now, tok, rec, res, geo, proc, wait>>

\* the record the cache file holds, null when there is none to read
Held(f) == IF f.exists /\ f.closed THEN parse(f).val ELSE NullObj

\* refreshToken(bearerToken); ioClear is what the file-system calls of its
\* clearTokenCache run into, io those of its getValidToken
RefreshToken ==
  /\ FirstCall
  /\ \E net \in NetOutcomes, ioClear \in ClearIO :
    \E io \in {x \in IOSet : Faults(ioClear) + Faults(x) <= MaxFaults} :
    \E r \in {refreshToken(Store, net, now, ioClear, io)} :
      /\ Install(r.st)
      /\ last' = [op |-> "refreshToken", threw |-> r.threw, ret |-> r.ret,
                  ssoCalls |-> r.ssoCalls, prior |-> Held(file),
                  at |-> now, ioClear |-> ioClear, net |-> net.kind]
      /\ UNCHANGED <<now, tok, rec, res, geo, proc, wait>>

NextGate == Tick \/ EarlierRun \/ Initialize \/ RefreshToken

SpecGate == Init /\ [][NextGate]_vars

\* C11: initialize called with an empty or absent bearer token and
\* exitOnFailure = true ends the process with exit status 1, having read
\* no cache and made no exchange.
C11_NoTokenExitsWithOne ==
  (last.op = "initialize" /\ ~Truthy(last.token) /\ last.exitOnFailure)
    => /\ last.how = "exit"
       /\ last.code = 1
       /\ last.loads = 0
       /\ last.ssoCalls = 0

\* the exit status the specification gives each failure class
CodeOf(class) ==
  CASE class = "notoken" -> 1
    [] class = "permission" -> 2
    [] class = "nothing" -> 3
    [] OTHER -> 4

\* C12: with exitOnFailure = true, a call of initialize that runs into a
\* failure class ends the process with the exit status of that class and
\* no other.
C12_ExitCodePerClass ==
  (last.op = "initialize" /\ last.exitOnFailure /\ last.class # "none")
    => (last.how = "exit" /\ last.code = CodeOf(last.class))

\* C13: with exitOnFailure = false, initialize returns (it neither ends the
\* process nor throws); it returns true exactly when it was given a bearer
\* token and getValidToken handed it a credential, whether or not that
\* credential grants access, and false otherwise.
C13_ReturnsWithoutOptIn ==
  (last.op = "initialize" /\ ~last.exitOnFailure)
    => /\ last.how = "return"
       /\ last.ret <=> (Truthy(last.token) /\ ~last.cred.nul)
       /\ (~Truthy(last.token) => (last.loads = 0 /\ last.ssoCalls = 0))

\* a credential that grants no access was obtained and true returned
C13_Witness ==
  /\ last.op = "initialize" /\ ~last.exitOnFailure
  /\ ~last.cred.nul /\ ~hasAccess(last.cred)
  /\ last.class = "permission"
  /\ last.how = "return" /\ last.ret

\* the exchange failed and false was returned
C13_WitnessNothing ==
  /\ last.op = "initialize" /\ ~last.exitOnFailure
  /\ Truthy(last.token) /\ last.cred.nul /\ last.ssoCalls = 1
  /\ last.how = "return" /\ ~last.ret

\* C14: for every prior cache state and every outcome of the clear step,
\* one call of refreshToken invokes performSSOLogin exactly once.
C14_RefreshAlwaysAsks ==
  (last.op = "refreshToken") => last.ssoCalls = 1

(***************************************************************************)
(* Runs of the desktop process: main() of src/index.js from its start to   *)
(* the window, run after run on the same cache file.                       *)
(***************************************************************************)
Platforms == {"darwin", "win32", "linux"}

\* main() is called: a new process (a first run, or a run after an earlier
\* one ended or its window is up)
Start ==
  /\ proc.pc \in {"none", "exited", "ui"}
  /\ \E isDev \in BOOLEAN, platform \in Platforms :
       proc' = [NoProc EXCEPT !.pc = "env", !.isDev = isDev,
                              !.platform = platform]
  /\ cachedToken' = NullObj
  /\ UNCHANGED <<file, dir, now, last, tok, rec, res, geo, wait>>

\* process.exit(1) of main
Exit1(p) == [p EXCEPT !.pc = "exited", !.exit = 1]

\* await setEnvVars(): it leaves LMS_BEARER_TOKEN set or not, or throws
SetEnvVars ==
  /\ proc.pc = "env"
  /\ \/ \E token \in NoBearerTokens \cup {BearerToken} :
          proc' = [proc EXCEPT !.pc = "gate", !.token = token]
     \/ proc' = Exit1(proc)
  /\ UNCHANGED <<file, dir, cachedToken, now, last, tok, rec, res, geo, wait>>

\* initializeLMS() is called
GateStart ==
  /\ proc.pc = "gate"
  /\ proc' = [proc EXCEPT !.pc = "inGate", !.gate = "running"]
  /\ UNCHANGED <<file, dir, cachedToken, now, last, tok, rec, res, geo, wait>>

\* initializeLMS() settles
GateEnd ==
  /\ proc.pc = "inGate"
  /\ \E net \in NetOutcomes, io \in IOSet :
       \E r \in {initializeLMS(Store, proc.token, net, now, io)} :
         /\ Install(r.st)
         /\ proc' = IF afterGate(r.outcome) = "exited"
                    THEN Exit1([proc EXCEPT !.gate = r.outcome])
                    ELSE [proc EXCEPT !.gate = r.outcome,
                                      !.pc = afterGate(r.outcome)]
  /\ UNCHANGED <<now, last, tok, rec, res, geo, wait>>

\* await showAccessDeniedDialog(); process.exit(1)
Denied ==
  /\ proc.pc = "denied"
  /\ proc' = Exit1(proc)
  /\ UNCHANGED <<file, dir, cachedToken, now, last, tok, rec, res, geo, wait>>

\* bgEnabled, await tcpPortUsed.check(...), shouldInit; the check may reject
Probe ==
  /\ proc.pc = "probe"
  /\ \/ \E bgEnabled \in BOOLEAN, portInUse \in BOOLEAN :
          proc' = [proc EXCEPT !.pc = "launch", !.bgEnabled = bgEnabled,
                               !.portInUse = portInUse,
                               !.shouldInit = shouldInit(bgEnabled, portInUse)]
     \/ proc' = Exit1(proc)
  /\ UNCHANGED <<file, dir, cachedToken, now, last, tok, rec, res, geo, wait>>

\* the two launch blocks of main
Launch ==
  /\ proc.pc = "launch"
  /\ \E made \in {devLaunch(proc.isDev, proc.platform, proc.shouldInit)
                    \cup prodLaunch(proc.isDev, proc.shouldInit)} :
       proc' = [proc EXCEPT !.pc = "wait",
                            !.child = launch(proc.isDev, proc.platform,
                                             proc.shouldInit),
                            !.kinds = made, !.alive = made,
                            !.sup = IF made = {} THEN "NotStarted"
                                    ELSE "Running"]
  /\ UNCHANGED <<file, dir, cachedToken, now, last, tok, rec, res, geo, wait>>

\* await waitForUrls(...) resolves and the window is created
Ready ==
  /\ proc.pc = "wait"
  /\ proc' = [proc EXCEPT !.pc = "ui"]
  /\ UNCHANGED <<file, dir, cachedToken, now, last, tok, rec, res, geo, wait>>

\* the run goes on after the launch blocks
Running == proc.pc \in {"wait", "ui"}

\* a child process ends, by itself or by a crash
ChildExit ==
  /\ Running
  /\ \E k \in proc.alive :
       proc' = [proc EXCEPT !.alive = @ \ {k}, !.sup = "Exited"]
  /\ UNCHANGED <<file, dir, cachedToken, now, last, tok, rec, res, geo, wait>>

\* what follows the exit of a child: a restart or the end of restarting
Restart ==
  /\ Running
  /\ proc.sup = "Exited"
  /\ \E k \in proc.kinds \ proc.alive :
       /\ restartsChild(k)
       /\ proc' = IF afterExit(proc.restarts) = "Running"
                  THEN [proc EXCEPT !.alive = @ \cup {k}, !.sup = "Running",
                                    !.restarts = @ + 1,
                                    !.revived = proc.aborted]
                  ELSE [proc EXCEPT !.sup = "Terminal"]
  /\ UNCHANGED <<file, dir, cachedToken, now, last, tok, rec, res, geo, wait>>

\* controller.abort(), by the renderer that was handed the controller
Abort ==
  /\ proc.pc = "ui"
  /\ ~proc.aborted
  /\ proc' = [proc EXCEPT
       !.aborted = TRUE,
       !.alive = {k \in @ : ~abortKills(k)},
       !.sup = IF \E k \in proc.alive : abortKills(k) THEN "Exited" ELSE @]
  /\ UNCHANGED <<file, dir, cachedToken, now, last, tok, rec, res, geo, wait>>

NextMain ==
  \/ Tick \/ Start \/ SetEnvVars \/ GateStart \/ GateEnd \/ Denied
  \/ Probe \/ Launch \/ Ready \/ ChildExit \/ Restart \/ Abort

\* the timer respawn sets after an exit fires
FairMain == WF_vars(Restart)

SpecMain == Init /\ [][NextMain]_vars /\ FairMain

\* C15: in every run the child is launched only after initializeLMS has
\* settled with success: while the gate has not settled, and in a run where
\* it failed or threw, there is no child, and a run that ended at the gate
\* ended with no child.
C15_GateBeforeLaunch ==
  /\ proc.child # "none" => proc.gate = "ok"
  /\ proc.gate \in {"pending", "running", "failed", "threw", "exit"}
       => (proc.child = "none" /\ proc.pc \notin {"launch", "wait", "ui"})

\* a child was launched in a run whose gate reused or obtained a credential
C15_Witness ==
  /\ proc.child = "respawn" /\ proc.pc = "wait" /\ proc.gate = "ok"
  /\ Truthy(proc.token)

\* runs that ended at the gate: access denied, and a rejected initialize
C15_WitnessDenied ==
  proc.pc = "exited" /\ proc.gate = "failed" /\ proc.child = "none"
C15_WitnessThrew ==
  proc.pc = "exited" /\ proc.gate = "threw" /\ proc.child = "none"

\* main is past the launch blocks
Launched == proc.pc \in {"wait", "ui"}

\* C20 as stated: shouldInit is false exactly when the port is in use and
\* background mode is disabled, and in every other combination a child is
\* launched.
C20_SkipsWhenPortBoundAndNoBackground ==
  Launched
    => /\ proc.shouldInit = ~(proc.portInUse /\ ~proc.bgEnabled)
       /\ (proc.child # "none") = proc.shouldInit

\* C20 as amended: shouldInit is false exactly when the port is in use and
\* background mode is enabled; no child is launched when it is false; when
\* it is true the production build launches the child under respawn, and
\* the development build launches it on macOS (execFile) and Windows (fork)
\* and launches none on any other platform.
C20_SkipsWhenBackgroundInstanceRuns ==
  Launched
    => /\ proc.shouldInit = ~(proc.portInUse /\ proc.bgEnabled)
       /\ (~proc.shouldInit => proc.child = "none")
       /\ (proc.shouldInit /\ ~proc.isDev => proc.child = "respawn")
       /\ (proc.shouldInit /\ proc.isDev
             => proc.child = (CASE proc.platform = "darwin" -> "execFile"
                                [] proc.platform = "win32" -> "fork"
                                [] OTHER -> "none"))

\* the port is in use, background mode is enabled, no child is launched
C20_Witness ==
  /\ Launched /\ proc.portInUse /\ proc.bgEnabled
  /\ ~proc.shouldInit /\ proc.child = "none"

\* the port is in use, background mode is disabled, a child is launched
C20_WitnessLaunched ==
  /\ Launched /\ proc.portInUse /\ ~proc.bgEnabled
  /\ proc.shouldInit /\ proc.child = "respawn"

\* the run has a child of the development block, of the production block
Unmanaged == proc.kinds \cap {"execFile", "fork"} # {}
Managed == "respawn" \in proc.kinds

\* the step stays within one run of main
SameRun == Running /\ proc'.pc \in {"wait", "ui"}

\* the states of the supervised process and what holds in each
SupervisorStates ==
  /\ proc.sup \in {"NotStarted", "Running", "Exited", "Terminal"}
  /\ proc.restarts <= maxRestarts
  /\ proc.kinds = {} <=> proc.sup = "NotStarted"
  /\ proc.sup = "Running" <=> proc.alive # {}
  /\ proc.sup = "Terminal" =>
       Managed /\ proc.alive = {} /\ proc.restarts = maxRestarts
  /\ Unmanaged => proc.restarts = 0 /\ proc.sup # "Terminal"

\* the steps of the supervised process within a run
SupervisorSteps ==
  SameRun =>
    /\ <<proc.sup, proc'.sup>> \in
         {<<"NotStarted", "NotStarted">>, <<"Running", "Running">>,
          <<"Running", "Exited">>, <<"Exited", "Exited">>,
          <<"Exited", "Running">>, <<"Exited", "Terminal">>,
          <<"Terminal", "Terminal">>}
    /\ proc'.restarts \in {proc.restarts, proc.restarts + 1}
    /\ (proc.sup = "Exited" /\ proc'.sup = "Running") =>
         Managed /\ proc'.restarts = proc.restarts + 1
    /\ (proc.sup = "Exited" /\ proc'.sup = "Terminal") =>
         /\ proc.restarts = maxRestarts
         /\ proc'.exit = proc.exit /\ proc'.pc = proc.pc
    /\ proc.sup = "Terminal" => proc'.alive = {} /\ proc'.restarts = proc.restarts
    /\ (Unmanaged /\ proc.alive = {}) => proc'.alive = {}

\* C21: the supervised process goes NotStarted -> Running -> Exited ->
\* Running ...; a managed child that exited is started again while fewer
\* than 10 restarts were made, the count of restarts never exceeds 10, and
\* after the tenth the supervisor stays in its terminal state, the run of
\* main going on as before; an unmanaged child is launched once and is
\* never started again.
C21_SupervisorRestarts ==
  /\ []SupervisorStates
  /\ [][SupervisorSteps]_vars
  /\ ((Running /\ Managed /\ proc.sup = "Exited"
         /\ proc.restarts < maxRestarts)
        ~> (proc.sup = "Running" \/ ~Running))

\* the budget is used up: ten restarts were made and the child exited again
C21_Witness ==
  /\ Running /\ Managed
  /\ proc.sup = "Terminal" /\ proc.restarts = maxRestarts

\* an unmanaged child has exited and main goes on without it
C21_WitnessUnmanaged ==
  /\ proc.pc = "ui" /\ proc.kinds = {"execFile"}
  /\ proc.sup = "Exited" /\ proc.alive = {} /\ ~proc.aborted

\* C22: a run has at most one child alive and creates at most one child
\* handle, so never a managed and an unmanaged one; and it creates a child
\* only past the launch blocks of a run whose shouldInit is true.
C22_OneSupervisedProcess ==
  /\ Cardinality(proc.alive) <= 1
  /\ Cardinality(proc.kinds) <= 1
  /\ ~(Managed /\ Unmanaged)
  /\ proc.alive \subseteq proc.kinds
  /\ proc.kinds # {} => (proc.shouldInit /\ Running)
  /\ proc.kinds = (IF proc.child = "none" THEN {} ELSE {proc.child})

\* the one managed child is alive again after a restart
C22_Witness ==
  /\ proc.alive = {"respawn"} /\ proc.restarts > 0
  /\ proc.shouldInit

\* a development run on a platform with no launch branch has no child
C22_WitnessNone ==
  /\ Running /\ proc.isDev /\ proc.shouldInit /\ proc.platform = "linux"
  /\ proc.kinds = {}

\* the step is the one abort of the run
Aborts == SameRun /\ ~proc.aborted /\ proc'.aborted

\* what the abort does, and what holds after it
AbortStep ==
  /\ Aborts =>
       /\ proc'.alive = proc.alive \ {"execFile", "fork"}
       /\ Managed =>
            /\ proc'.alive = proc.alive /\ proc'.sup = proc.sup
            /\ proc'.restarts = proc.restarts
  /\ (SameRun /\ proc.aborted) => proc'.aborted
AfterAbort ==
  (proc.aborted /\ Unmanaged) => (proc.alive = {} /\ proc.restarts = 0)

\* C23: a run has one abort; it ends the unmanaged child, which is not
\* started again; on a managed child and its supervisor it has no effect,
\* and a managed child that exits after the abort is still restarted.
C23_AbortOnlyUnmanaged ==
  /\ [][AbortStep]_vars
  /\ []AfterAbort
  /\ ((Running /\ Managed /\ proc.aborted /\ proc.sup = "Exited"
         /\ proc.restarts < maxRestarts)
        ~> (proc.sup = "Running" \/ ~Running))

\* the managed child was restarted after the abort
C23_Witness ==
  /\ proc.aborted /\ proc.revived
  /\ proc.alive = {"respawn"}

\* the abort ended the unmanaged child
C23_WitnessUnmanaged ==
  /\ proc.aborted /\ proc.kinds = {"fork"}
  /\ proc.alive = {} /\ proc.sup = "Exited"

(***************************************************************************)
(* waitForUrls (src/index.js) as main calls it.  Time is counted in ms     *)
(* since the call, in steps of one interval, and is not counted beyond     *)
(* MaxElapsed.  Each address answers its polls as its plan says: plan[u]   *)
(* polls that fail, then 200; Never is an address that never answers 200.  *)
(***************************************************************************)
\* interval: 250 in the call of main
interval == 250

Never == 0 - 1
Plans == [Urls -> (0..MaxFails) \cup {Never}]

\* what a poll can come back with other than 200: three statuses, and 0
\* for a fetch that rejects
FailedPolls == {500, 204, 401, 0}

\* check(url) taking every 2xx status as ready
isReady_Any2xx(status) == status \in {200, 204}

\* res.status === 200
isReady(status) == status = 200

\* one task of check(url): fetching, sleeping (left ms of its timer to go)
\* or returned; fails counts its failed polls, status is the last answer,
\* okAt the time of its 200
Task(st, left, fails, status, okAt) ==
  [st |-> st, left |-> left, fails |-> fails, status |-> status, okAt |-> okAt]

\* check(url) polling again at once after a failed poll
polled_NoSleep(task, status, at) ==
  IF isReady(status)
  THEN Task("done", 0, task.fails, status, at)
  ELSE Task("fetch", 0,
            IF task.fails < MaxFails THEN task.fails + 1 ELSE task.fails,
            status, Never)

\* check(url) after a poll came back with status
polled(task, status, at) ==
  IF isReady(status)
  THEN Task("done", 0, task.fails, status, at)
  ELSE Task("sleep", interval,
            IF task.fails < MaxFails THEN task.fails + 1 ELSE task.fails,
            status, Never)

\* Promise.all(urls.map(check)) is settled once every task returned
allReturned(tasks) == \A u \in Urls : tasks[u].st = "done"

NotWaiting == UNCHANGED <<file, dir, cachedToken, now, last, tok, rec, res, geo, proc>>

\* main calls waitForUrls: urls.map(check) starts one fetch per address
WaitForUrls ==
  /\ wait.pc = "none"
  /\ \E plan \in Plans :
       wait' = [pc |-> "polling",
                task |-> [u \in Urls |-> Task("fetch", 0, 0, Never, Never)],
                plan |-> plan, elapsed |-> 0, at |-> Never]
  /\ NotWaiting

\* the fetch of u settles: with 200 once its plan's failed polls are spent
Answer(u) ==
  /\ wait.pc = "polling"
  /\ wait.task[u].st = "fetch"
  /\ \E status \in (IF wait.task[u].fails = wait.plan[u]
                     THEN {200} ELSE FailedPolls) :
       wait' = [wait EXCEPT !.task[u] = polled(@, status, wait.elapsed)]
  /\ NotWaiting

\* the timer of u has run out: the loop of check(u) fetches again
Wake(u) ==
  /\ wait.pc = "polling"
  /\ wait.task[u].st = "sleep"
  /\ wait.task[u].left = 0
  /\ wait' = [wait EXCEPT !.task[u].st = "fetch"]
  /\ NotWaiting

\* one interval of time passes
Pass ==
  /\ wait.pc = "polling"
  /\ wait' = [wait EXCEPT
       !.elapsed = IF @ + interval < MaxElapsed THEN @ + interval
                   ELSE MaxElapsed,
       !.task = [u \in Urls |->
                  IF wait.task[u].left > 0
                  THEN [wait.task[u] EXCEPT !.left = @ - interval]
                  ELSE wait.task[u]]]
  /\ NotWaiting

\* Promise.all settles: waitForUrls returns
Resolve ==
  /\ wait.pc = "polling"
  /\ allReturned(wait.task)
  /\ wait' = [wait EXCEPT !.pc = "resolved", !.at = wait.elapsed]
  /\ NotWaiting

NextWait ==
  \/ WaitForUrls
  \/ \E u \in Urls : Answer(u)
  \/ \E u \in Urls : Wake(u)
  \/ Pass
  \/ Resolve

\* the event loop: time passes, every fetch settles, every timer that has
\* run out fires, a settled Promise.all is delivered
FairWait ==
  /\ WF_vars(Pass)
  /\ WF_vars(Resolve)
  /\ \A u \in Urls : WF_vars(Answer(u)) /\ WF_vars(Wake(u))

SpecWait == Init /\ [][NextWait]_vars /\ FairWait

\* C16: waitForUrls never rejects; a task of check has returned exactly
\* when the last answer of its address was status 200, so no other status
\* and no transport error counts as ready and each leaves the task polling;
\* and waitForUrls has resolved only when every address answered 200.
C16_ResolvesOnlyWhenAll200 ==
  wait.pc # "none" =>
    /\ wait.pc \in {"polling", "resolved"}
    /\ \A u \in Urls :
         /\ wait.task[u].st = "done" <=> wait.task[u].status = 200
         /\ wait.task[u].status \in FailedPolls =>
              wait.task[u].st \in {"sleep", "fetch"}
         /\ wait.pc = "resolved" =>
              wait.task[u].status = 200 /\ wait.task[u].okAt # Never

\* waitForUrls has resolved after a failed poll of some address
C16_Witness ==
  /\ wait.pc = "resolved"
  /\ \E u \in Urls : wait.task[u].fails > 0

\* one address answered 204 and is polled again while the other is ready
C16_WitnessNot200 ==
  /\ wait.pc = "polling"
  /\ wait.task["root"].status = 204
  /\ wait.task["root"].st = "sleep"
  /\ wait.task["healthz"].st = "done"

\* every address answers 200 after finitely many failed polls
AllAnswer == \A u \in Urls : wait.plan[u] # Never

\* the 200 of each address comes no earlier than one interval per failed
\* poll, and the resolution no earlier than the last 200
InTime ==
  wait.pc = "resolved" =>
    /\ \A u \in Urls :
         /\ wait.task[u].okAt >= wait.task[u].fails * interval
         /\ wait.at >= wait.task[u].okAt
    /\ (wait.task["healthz"].okAt = 0 /\ wait.task["root"].fails = 1) =>
         wait.at >= wait.task["healthz"].okAt + interval

\* a task that has returned is left alone by every step
Apart ==
  wait.pc = "polling" =>
    \A u \in Urls :
      wait.task[u].st = "done" => wait'.task[u] = wait.task[u]

\* C17: each address is polled by a task of its own, an interval apart:
\* when every address answers 200 after finitely many failed polls,
\* waitForUrls resolves in the end; a task that has returned is not polled
\* again while the others carry on; and the resolution comes no earlier
\* than the last first 200, an interval after /a when /a is ready at once
\* and /b on its second poll.
C17_IndependentPolling ==
  /\ []InTime
  /\ [][Apart]_vars
  /\ ((wait.pc = "polling" /\ AllAnswer) ~> (wait.pc = "resolved"))

\* resolved with one address ready at once and the other on its second poll
C17_Witness ==
  /\ wait.pc = "resolved"
  /\ wait.task["healthz"].okAt = 0
  /\ wait.task["root"].fails = 1
  /\ wait.at = interval

\* one address is ready while the other is still being fetched
C17_WitnessConcurrent ==
  /\ wait.pc = "polling"
  /\ wait.task["healthz"].st = "done"
  /\ wait.task["root"].st = "fetch"
  /\ wait.task["root"].fails > 0

\* C18: a wait that was started settles in the end, also when some address
\* never answers 200: the caller's timeout ends it.
C18_WaitSettles ==
  (wait.pc = "polling") ~> (wait.pc \in {"resolved", "rejected"})

(***************************************************************************)
(* Location of the user: getUserLocation, getFallbackLocation,             *)
(* getLocationFromTimezone, and getSystemInfoWithPublicIP which asks for   *)
(* it.  A service answer is what fetch and response.json() come back with: *)
(* threw (the request or the parsing failed), nul (the JSON text null) or  *)
(* an object with status, city and country (country_name for ipapi.co).    *)
(***************************************************************************)
GeoAnswer(threw, nul, status, city, country) ==
  [threw |-> threw, nul |-> nul, status |-> status, city |-> city,
   country |-> country]

\* one tier of the chain: it returned val (found), or control goes on to
\* the next tier
Tier(found, val) == [found |-> found, val |-> val]

\* a value inside a template literal
text(v) ==
  CASE v.t = "str" -> v.s
    [] v.t = "undef" -> <<"undefined">>
    [] v.t = "null" -> <<"null">>
    [] OTHER -> <<"?">>

\* `${city}, ${country}`
cityAndCountry(city, country) == Str(text(city) \o <<", ">> \o text(country))

\* the timezoneToLocation table
timezoneToLocation(zone) ==
  CASE zone \in {"Asia/Kolkata", "Asia/Mumbai", "Asia/Delhi"} -> Str(<<"India">>)
    [] zone \in {"America/New_York", "America/Los_Angeles", "America/Chicago"}
         -> Str(<<"United States">>)
    [] zone = "Europe/London" -> Str(<<"United Kingdom">>)
    [] zone = "Europe/Paris" -> Str(<<"France">>)
    [] zone = "Europe/Berlin" -> Str(<<"Germany">>)
    [] zone = "Asia/Tokyo" -> Str(<<"Japan">>)
    [] zone = "Asia/Shanghai" -> Str(<<"China">>)
    [] zone = "Australia/Sydney" -> Str(<<"Australia">>)
    [] OTHER -> Undef

\* getLocationFromTimezone: the table, || "Unknown", and "Unknown" from the
\* catch when the timezone cannot be read
getLocationFromTimezone(tz) ==
  IF tz.threw THEN Str(<<"Unknown">>)
  ELSE IF Truthy(timezoneToLocation(tz.zone)) THEN timezoneToLocation(tz.zone)
  ELSE Str(<<"Unknown">>)

\* the try block of getFallbackLocation; reading a field of null throws
\* into the catch, which goes on like an answer without a country
fallbackTry(b) ==
  IF b.threw \/ b.nul THEN Tier(FALSE, Undef)
  ELSE IF Truthy(b.city) /\ Truthy(b.country)
  THEN Tier(TRUE, cityAndCountry(b.city, b.country))
  ELSE IF Truthy(b.country) THEN Tier(TRUE, b.country)
  ELSE Tier(FALSE, Undef)

\* getFallbackLocation giving up without the timezone table
getFallbackLocation_NoTable(b, tz) ==
  IF fallbackTry(b).found THEN fallbackTry(b).val ELSE Str(<<"Unknown">>)

getFallbackLocation(b, tz) ==
  IF fallbackTry(b).found THEN fallbackTry(b).val
  ELSE getLocationFromTimezone(tz)

\* the try block of getUserLocation
locationTry(a) ==
  IF a.threw \/ a.nul THEN Tier(FALSE, Undef)
  ELSE IF a.status = Str(<<"success">>)
  THEN Tier(TRUE, cityAndCountry(a.city, a.country))
  ELSE IF Truthy(a.country) THEN Tier(TRUE, a.country)
  ELSE Tier(FALSE, Undef)

getUserLocation(a, b, tz) ==
  IF locationTry(a).found THEN locationTry(a).val
  ELSE getFallbackLocation(b, tz)

\* getPublicIPAddress: data.ip, or getIPAddress() from the catch
getPublicIPAddress(ip) ==
  IF ip.threw \/ ip.nul THEN Str(<<"local">>) ELSE ip.status

\* getSystemInfoWithPublicIP: nothing inside its try block throws, so the
\* object of the try block is what it returns
getSystemInfoWithPublicIP(ip, a, b, tz) ==
  [threw |-> FALSE,
   userLocation |-> getUserLocation(a, b, tz),
   ipAddress |-> getPublicIPAddress(ip)]

GeoAnswers ==
  {GeoAnswer(TRUE, FALSE, Undef, Undef, Undef),
   GeoAnswer(FALSE, TRUE, Undef, Undef, Undef)}
  \cup {GeoAnswer(FALSE, FALSE, st, ci, co) :
          st \in {Undef, Str(<<"success">>), Str(<<"fail">>)},
          ci \in {Undef, Str(<<>>), Str(<<"Pune">>)},
          co \in {Undef, Str(<<>>), Str(<<"India">>)}}
IpAnswers ==
  {GeoAnswer(TRUE, FALSE, Undef, Undef, Undef),
   GeoAnswer(FALSE, FALSE, Str(<<"203.0.113.7">>), Undef, Undef)}
MappedZones ==
  {"Asia/Kolkata", "Asia/Mumbai", "Asia/Delhi", "America/New_York",
   "America/Los_Angeles", "America/Chicago", "Europe/London", "Europe/Paris",
   "Europe/Berlin", "Asia/Tokyo", "Asia/Shanghai", "Australia/Sydney"}
Timezones ==
  {[threw |-> TRUE, zone |-> "UTC"]}
  \cup {[threw |-> FALSE, zone |-> z] : z \in MappedZones \cup {"Africa/Cairo", "UTC"}}

\* performSSOLogin asks for the system info
GetSystemInfo ==
  /\ geo.op = "none"
  /\ \E ip \in IpAnswers, a \in GeoAnswers, b \in GeoAnswers, tz \in Timezones :
       geo' = [op |-> "getSystemInfoWithPublicIP", ip |-> ip, primary |-> a,
               secondary |-> b, tz |-> tz,
               out |-> getSystemInfoWithPublicIP(ip, a, b, tz)]
  /\ UNCHANGED <<file, dir, cachedToken, now, last, tok, rec, res, proc, wait>>

NextLocation == GetSystemInfo

SpecLocation == Init /\ [][NextLocation]_vars

\* the primary service failed: no answer, or an answer that neither reports
\* success nor names a country (an answer reporting success is taken at its
\* word); the secondary failed: no answer, or one without a country
PrimaryFails ==
  \/ geo.primary.threw \/ geo.primary.nul
  \/ geo.primary.status # Str(<<"success">>) /\ ~Truthy(geo.primary.country)
SecondaryFails ==
  geo.secondary.threw \/ geo.secondary.nul \/ ~Truthy(geo.secondary.country)

\* C19: the system info is always returned, never thrown; the location is
\* the primary service's when it answers, else the secondary's when that
\* answers; and when both fail it is the country of the local timezone,
\* "Unknown" when the timezone is not in the table or cannot be read.
C19_LocationFallbackChain ==
  geo.op = "getSystemInfoWithPublicIP" =>
    /\ ~geo.out.threw
    /\ geo.out.userLocation.t = "str"
    /\ (~PrimaryFails /\ geo.primary.status # Str(<<"success">>)) =>
         geo.out.userLocation = geo.primary.country
    /\ (~PrimaryFails /\ geo.primary.status = Str(<<"success">>)) =>
         geo.out.userLocation =
           Str(text(geo.primary.city) \o <<", ">> \o text(geo.primary.country))
    /\ (PrimaryFails /\ ~SecondaryFails) =>
         geo.out.userLocation \in
           {geo.secondary.country,
            Str(geo.secondary.city.s \o <<", ">> \o geo.secondary.country.s)}
    /\ (PrimaryFails /\ SecondaryFails) =>
         /\ (geo.tz.threw \/ geo.tz.zone \notin MappedZones) =>
              geo.out.userLocation = Str(<<"Unknown">>)
         /\ (~geo.tz.threw /\ geo.tz.zone \in MappedZones) =>
              geo.out.userLocation \in
                {Str(<<c>>) : c \in {"India", "United States", "United Kingdom",
                   "France", "Germany", "Japan", "China", "Australia"}}
         /\ (~geo.tz.threw /\ geo.tz.zone = "Asia/Kolkata") =>
              geo.out.userLocation = Str(<<"India">>)
         /\ (~geo.tz.threw /\ geo.tz.zone = "Europe/Paris") =>
              geo.out.userLocation = Str(<<"France">>)

\* both services failed, one by a network error and one by an answer
\* without a country, and the timezone gave the country
C19_Witness ==
  /\ geo.op = "getSystemInfoWithPublicIP"
  /\ geo.primary.threw
  /\ ~geo.secondary.threw /\ ~geo.secondary.nul /\ SecondaryFails
  /\ geo.tz.zone = "Asia/Tokyo" /\ ~geo.tz.threw
  /\ geo.out.userLocation = Str(<<"Japan">>)

\* both services failed and the timezone is not in the table
C19_WitnessUnknown ==
  /\ geo.op = "getSystemInfoWithPublicIP"
  /\ PrimaryFails /\ SecondaryFails
  /\ geo.tz.zone = "Africa/Cairo" /\ ~geo.tz.threw
  /\ geo.out.userLocation = Str(<<"Unknown">>)

(***************************************************************************)
(* The credential decoder on its own: decodeJWT and isJWTExpired applied   *)
(* to every token string of at most MaxTokLen characters.                  *)
(***************************************************************************)
DecodeChars == {".", "h", "p", "z", "n", "x"}
TokenStrings == UNION {[1..n -> DecodeChars] : n \in 0..MaxTokLen}
\* what a caller may hand over: a string, undefined, null, a number
TokenInputs == {Str(s) : s \in TokenStrings} \cup {Undef, Null, Num(7)}

\* clock readings around exp = 1000 s: second 999, 1000, 1000, 1001
DecodeClock == {999999, 1000000, 1000999, 1001000}

InitDecode ==
  /\ file = NoFile
  /\ dir = FALSE
  /\ cachedToken = NullObj
  /\ now \in DecodeClock
  /\ last = NoCall
  /\ tok \in TokenInputs
  /\ rec = NullObj
  /\ res = NoRes
  /\ geo = NoGeo
  /\ proc = NoProc
  /\ wait = NoWait

\* decodeJWT(tok)
Decode ==
  /\ res' = [op |-> "decodeJWT", threw |-> decodeJWT(tok).threw,
             out |-> decodeJWT(tok).val]
  /\ UNCHANGED <<file, dir, cachedToken, now, last, tok, rec, geo, proc, wait>>

\* isJWTExpired(tok)
Expired ==
  /\ res' = [op |-> "isJWTExpired", threw |-> isJWTExpired(tok, now).threw,
             out |-> isJWTExpired(tok, now).val]
  /\ UNCHANGED <<file, dir, cachedToken, now, last, tok, rec, geo, proc, wait>>

NextDecode == Decode \/ Expired

SpecDecode == InitDecode /\ [][NextDecode]_vars

\* the chunks that stand for a JSON text, and the exp each carries (0: none)
JsonChunks == {"h", "p", "q", "z", "o", "n"}
ExpOfChunk(c) == IF c = "p" THEN 1000 ELSE IF c = "q" THEN 1300 ELSE 0

\* number of dots of a string
Dots(s) == Cardinality({i \in 1..Len(s) : s[i] = "."})

\* s is chunk "." chunk "." signature, with both chunks JSON texts
TwoJsonSegments(s) ==
  /\ Len(s) >= 4
  /\ s[2] = "." /\ s[4] = "."
  /\ s[1] \in JsonChunks /\ s[3] \in JsonChunks
  /\ \A i \in 5..Len(s) : s[i] # "."

\* C8: decodeJWT never throws; it yields null for undefined, null, the
\* empty string and every string that does not split on "." into exactly
\* three segments (two dots), and also when the first or the second
\* segment is no base64url-encoded JSON text.
C8_DecodeNeverThrows ==
  (res.op = "decodeJWT")
    => /\ ~res.threw
       /\ ((tok.t # "str" \/ Dots(tok.s) # 2) => ~res.out.ok)
       /\ ((tok.t = "str" /\ ~TwoJsonSegments(tok.s)) => ~res.out.ok)

\* three segments, the second no JSON text: null, nothing thrown
C8_Witness ==
  /\ res.op = "decodeJWT"
  /\ tok = Str(<<"h", ".", "x", ".", "x">>)
  /\ ~res.out.ok /\ ~res.threw

\* four segments: null
C8_WitnessFourSegments ==
  /\ res.op = "decodeJWT" /\ tok.t = "str" /\ Dots(tok.s) = 3
  /\ ~res.out.ok /\ ~res.threw

\* C9 as stated: decodeJWT accepts a token only if it splits into exactly
\* three segments that are all non-empty and the first two are JSON texts;
\* a token with an empty third segment is not accepted.
C9_ThreeNonEmptySegments ==
  (res.op = "decodeJWT" /\ res.out.ok)
    => /\ tok.t = "str"
       /\ TwoJsonSegments(tok.s)
       /\ Len(tok.s) >= 5

\* C10 as stated: isJWTExpired is true when the token does not decode,
\* when the payload has no exp, or when exp <= the current time in whole
\* seconds, and false only when exp is greater than the current second.
C10_ExpiredAtOrBeforeNow ==
  (res.op = "isJWTExpired")
    => /\ ~res.threw
       /\ res.out =
            (\/ tok.t # "str"
             \/ ~TwoJsonSegments(tok.s)
             \/ ExpOfChunk(tok.s[3]) = 0
             \/ ExpOfChunk(tok.s[3]) <= now \div 1000)

(***************************************************************************)
(* The validity policy on its own: isCachedTokenValid applied to records   *)
(* and clock readings.                                                     *)
(***************************************************************************)
PolicyTokens ==
  {Undef, Null, Num(7), Str(<<>>), Str(TokP), Str(TokQ), Str(TokZ), Str(TokNoSig),
   Str(TokNullPayload), Str(TokBad), Str(<<"h", ".", "p">>)}
\* expiresAt as saveTokenToCache writes it (null, or 1000 * exp for an exp
\* that is not 0), or missing
PolicyExpiries == {Undef, Null, Num(1000000), Num(1300000)}
PolicyRecords ==
  {NullObj} \cup
  {Response(j, Bool(FALSE), Bool(FALSE), Bool(TRUE), KeyK, Num(1), e) :
     j \in PolicyTokens, e \in PolicyExpiries}

NowValues ==
  {400000, 699999, 700000, 700001, 999999, 1000000, 1000001, 1300000, 2000000}

InitPolicy ==
  /\ file = NoFile
  /\ dir = FALSE
  /\ cachedToken = NullObj
  /\ now \in NowValues
  /\ last = NoCall
  /\ tok = Undef
  /\ rec \in PolicyRecords
  /\ res = NoRes
  /\ geo = NoGeo
  /\ proc = NoProc
  /\ wait = NoWait

\* isCachedTokenValid(rec)
CheckValid ==
  /\ res' = [op |-> "isCachedTokenValid", out |-> isCachedTokenValid(rec, now)]
  /\ UNCHANGED <<file, dir, cachedToken, now, last, tok, rec, geo, proc, wait>>

NextPolicy == CheckValid

SpecPolicy == InitPolicy /\ [][NextPolicy]_vars

\* C1: isCachedTokenValid is false for no record and for a record without
\* token; false when expiresAt is set and now >= expiresAt - 5 minutes;
\* false when the token does not decode; and true in every other case.
C1_ValidityDecision ==
  (res.op = "isCachedTokenValid")
    => res.out =
         (IF rec.nul THEN FALSE
          ELSE IF rec.f["jwt"].t # "str" \/ rec.f["jwt"].s = <<>> THEN FALSE
          ELSE IF rec.f["expiresAt"].t = "num"
                  /\ now >= rec.f["expiresAt"].n - 5 * 60 * 1000 THEN FALSE
          ELSE IF ~TwoJsonSegments(rec.f["jwt"].s) THEN FALSE
          ELSE TRUE)

\* the inclusive boundary: now = expiresAt - 300000, rejected
C1_Witness ==
  /\ res.op = "isCachedTokenValid"
  /\ rec.f["jwt"] = Str(TokP)
  /\ rec.f["expiresAt"] = Num(now + 300000)
  /\ res.out = FALSE

\* one millisecond earlier: accepted
C1_WitnessJustValid ==
  /\ res.op = "isCachedTokenValid"
  /\ rec.f["jwt"] = Str(TokP)
  /\ rec.f["expiresAt"] = Num(now + 300001)
  /\ res.out = TRUE

(***************************************************************************)
(* The record saveTokenToCache writes, then judged by the validity policy  *)
(* and by the decoder at the same clock reading.                           *)
(***************************************************************************)
\* a token whose payload is {"exp":0}
TokO == <<"h", ".", "o", ".", "x">>

RecordTokens ==
  {Undef, Num(7), Str(<<>>), Str(TokP), Str(TokQ), Str(TokZ), Str(TokO),
   Str(TokNoSig), Str(TokNullPayload), Str(TokBad)}

\* cachedAt and expiresAt as the input record may carry them
SuppliedStamps == {Undef, Num(1), Num(2000000)}

\* clock readings, in ms, around the buffer and the expiry of TokP
RecordClock == {400000, 700000, 999999, 1000000, 1000999, 1001000, 2000000}

InitRecord ==
  /\ file = NoFile
  /\ dir = FALSE
  /\ cachedToken = NullObj
  /\ now \in RecordClock
  /\ last = NoCall
  /\ tok \in RecordTokens
  /\ rec = NullObj
  /\ res = NoRes
  /\ geo = NoGeo
  /\ proc = NoProc
  /\ wait = NoWait

\* saveTokenToCache(tokenData) with tokenData.jwt = tok; rec is the record
\* the file then holds
SaveRecord ==
  /\ last.op = "none"
  /\ \E c \in SuppliedStamps, e \in SuppliedStamps :
       \E r \in {saveTokenToCache(Store,
                   Response(tok, Bool(FALSE), Bool(FALSE), Bool(TRUE), KeyK, c, e),
                   now, NoFault)} :
         /\ Install(r.st)
         /\ last' = [op |-> "save", threw |-> r.threw, ret |-> r.ret.b,
                     at |-> now, cachedAt |-> c, expiresAt |-> e]
         /\ rec' = parse(r.st.file).val
  /\ UNCHANGED <<now, tok, res, geo, proc, wait>>

\* time passes
Elapse ==
  /\ last.op = "save"
  /\ \E t \in RecordClock : t > now /\ now' = t
  /\ UNCHANGED <<file, dir, cachedToken, last, tok, rec, res, geo, proc, wait>>

\* isCachedTokenValid(rec) and isJWTExpired(rec.jwt) at the same time
Judge ==
  /\ last.op = "save"
  /\ res' = [op |-> "judge", at |-> now,
             valid |-> isCachedTokenValid(rec, now),
             expired |-> isJWTExpired(rec.f["jwt"], now).val]
  /\ UNCHANGED <<file, dir, cachedToken, now, last, tok, rec, geo, proc, wait>>

NextRecord == SaveRecord \/ Elapse \/ Judge

SpecRecord == InitRecord /\ [][NextRecord]_vars

\* the token decodes and its payload holds an exp (p, q: 1000, 1300; o: 0)
CarriesExp(v) ==
  /\ v.t = "str"
  /\ TwoJsonSegments(v.s)
  /\ v.s[3] \in {"p", "q", "o"}

\* C24 as stated: the record save writes has expiresAt = 1000 * exp when
\* the token decodes and carries an expiry claim and null otherwise, and
\* cachedAt is the time of the write; an expiresAt or cachedAt of the
\* input never reaches the stored record.
C24_ExpiresAtFromToken ==
  (last.op = "save" /\ last.ret)
    => /\ file.exists /\ file.closed
       /\ rec.f["expiresAt"] =
            (IF CarriesExp(tok) THEN Num(1000 * ExpOfChunk(tok.s[3]))
             ELSE Null)
       /\ rec.f["cachedAt"] = Num(last.at)

\* what the code does instead of C24: exp = 0 is stored as null, like no exp
C24_ExpiresAtFromTruthyExp ==
  (last.op = "save" /\ last.ret)
    => /\ file.exists /\ file.closed
       /\ rec.f["expiresAt"] =
            (IF CarriesExp(tok) /\ ExpOfChunk(tok.s[3]) # 0
             THEN Num(1000 * ExpOfChunk(tok.s[3]))
             ELSE Null)
       /\ rec.f["cachedAt"] = Num(last.at)

\* a supplied expiresAt and cachedAt replaced by the derived ones
C24_WitnessSupplied ==
  /\ last.op = "save" /\ last.ret
  /\ tok = Str(TokP)
  /\ last.expiresAt = Num(2000000) /\ last.cachedAt = Num(1)
  /\ rec.f["expiresAt"] = Num(1000000)
  /\ rec.f["cachedAt"] = Num(last.at)

\* the record of a token with exp = 0
C24_WitnessExpZero ==
  /\ last.op = "save" /\ last.ret
  /\ tok = Str(TokO)
  /\ rec.f["expiresAt"] = Null

ExpirySet == rec.f["expiresAt"].t = "num"

\* what the code does instead of C26: for a record written by save whose
\* expiresAt is not null, isCachedTokenValid true implies isJWTExpired false
\* at the same now; a record whose expiresAt is null (token without exp,
\* with exp = 0 or with a null payload) is accepted at every now as long as
\* the token decodes, though isJWTExpired reports that token expired.
C26_ValidImpliesNotExpiredWhenExpirySet ==
  (res.op = "judge")
    => /\ (res.valid /\ ExpirySet) => ~res.expired
       /\ (~ExpirySet /\ rec.f["jwt"].t = "str" /\ TwoJsonSegments(rec.f["jwt"].s))
            => (res.valid /\ res.expired)

\* TokP judged valid before its buffer and not expired
C26_Witness ==
  /\ res.op = "judge" /\ res.at = 400000
  /\ rec.f["jwt"] = Str(TokP) /\ ExpirySet
  /\ res.valid /\ ~res.expired

\* a token without exp accepted long after it was saved, and expired
C26_WitnessNoExp ==
  /\ res.op = "judge" /\ res.at = 2000000 /\ last.at = 400000
  /\ rec.f["jwt"] = Str(TokZ)
  /\ res.valid /\ res.expired

(***************************************************************************)
(* The credential the access gate hands back.                              *)
(***************************************************************************)
\* v is a token that is present and decodes, and clock reading t is not
\* past its exp if it carries one
Usable(v, t) ==
  /\ v.t = "str"
  /\ TwoJsonSegments(v.s)
  /\ (CarriesExp(v) => t <= 1000 * ExpOfChunk(v.s[3]))

\* C25 as stated: every credential getValidToken returns other than null
\* carries a token that is present, decodes and is not past its expiry at
\* the time of the return; an answer of the server without token, or with
\* a token that does not decode or has expired, is neither returned nor
\* written to the cache.
C25_ReturnedCredentialIsUsable ==
  (last.op = "getValidToken")
    => /\ (~last.ret.nul => Usable(last.ret.f["jwt"], last.at))
       /\ (last.saved = "ok" => Usable(parse(file).val.f["jwt"], last.at))

\* an answer without jwt returned as the credential and written to the cache
C25_WitnessNoToken ==
  /\ last.op = "getValidToken" /\ last.ssoCalls = 1 /\ last.net = "ok"
  /\ ~last.ret.nul /\ last.ret.f["jwt"] = Undef
  /\ last.saved = "ok"
  /\ file.exists /\ file.closed /\ parse(file).val.f["jwt"] = Undef

(***************************************************************************)
(* Two runs of the application on the one cache file.  Each run calls      *)
(* getValidToken once; existsSync, readFileSync, unlinkSync and            *)
(* writeFileSync are separate steps and nothing locks the file.  In this   *)
(* specification cachedToken and proc hold one entry per run.              *)
(***************************************************************************)
Runs == {"a", "b"}

\* what the server answers to each run
RunAnswer(r) ==
  IF r = "a"
  THEN Response(Str(TokQ), Bool(FALSE), Bool(FALSE), Bool(TRUE), KeyK, Undef, Undef)
  ELSE Response(Str(TokZ), Bool(TRUE), Bool(FALSE), Bool(FALSE), KeyK, Undef, Undef)

\* the record an earlier run left: its token expires at 1000000
OldRecord ==
  cacheDataOf(Response(Str(TokP), Bool(FALSE), Bool(FALSE), Bool(TRUE), KeyK,
                       Undef, Undef), 1)

\* the cache file when the two runs start: none, a complete record, or a
\* text cut short
StartFiles == {NoFile, stringify(OldRecord), cutShort(stringify(OldRecord))}

\* the store as run r sees it
StoreOf(r) == [file |-> file, dir |-> dir, cachedToken |-> cachedToken[r]]

\* where a run is, the record its load returned, the answer it is about to
\* save, and whether its save returned true
Run(pc, cached, data, saved) ==
  [pc |-> pc, cached |-> cached, data |-> data, saved |-> saved]

\* the last step that touched the file, and the file before it
Step(op, by, before, startCorrupt) ==
  [op |-> op, by |-> by, before |-> before, startCorrupt |-> startCorrupt]

InitRace ==
  /\ file \in StartFiles
  /\ dir = file.exists
  /\ cachedToken = [r \in Runs |-> NullObj]
  /\ now \in ClockValues
  /\ last = Step("none", "none", NoFile, file.exists /\ ~file.closed)
  /\ tok = Undef
  /\ rec = NullObj
  /\ res = NoRes
  /\ geo = NoGeo
  /\ proc = [r \in Runs |-> Run("exists", NullObj, NullObj, FALSE)]
  /\ wait = NoWait

\* JSON.parse(fs.readFileSync(...)); this.cachedToken = cacheData:
\* readFileSync throws when the file is gone
readCache(st) ==
  IF ~st.file.exists THEN Out(st, TRUE, NullObj)
  ELSE loadParsed(st, parse(st.file))

\* getValidToken after the load, an invalid record cleared from the cache
afterLoad_ClearsInvalid(cached, t) ==
  IF isCachedTokenValid(cached, t) THEN "done"
  ELSE IF ~cached.nul THEN "clear"
  ELSE "login"

\* getValidToken after the load: return the cached record or ask the server
afterLoad(cached, t) ==
  IF isCachedTokenValid(cached, t) THEN "done" ELSE "login"

\* loadTokenFromCache: fs.existsSync(this.tokenCacheFile)
ExistsSync(r) ==
  /\ proc[r].pc = "exists"
  /\ proc' = [proc EXCEPT ![r].pc = IF file.exists THEN "read" ELSE "loaded"]
  /\ UNCHANGED <<file, dir, cachedToken, now, last, tok, rec, res, geo, wait>>

\* loadTokenFromCache: read and parse; an exception leads to the catch block
ReadFile(r) ==
  /\ proc[r].pc = "read"
  /\ \E l \in {readCache(StoreOf(r))} :
       /\ cachedToken' = [cachedToken EXCEPT ![r] = l.st.cachedToken]
       /\ proc' = [proc EXCEPT ![r].pc = IF l.threw THEN "clear" ELSE "loaded",
                               ![r].cached = l.ret]
  /\ UNCHANGED <<file, dir, now, last, tok, rec, res, geo, wait>>

\* clearTokenCache: fs.existsSync(this.tokenCacheFile)
ClearExists(r) ==
  /\ proc[r].pc = "clear"
  /\ IF file.exists
     THEN /\ proc' = [proc EXCEPT ![r].pc = "unlink", ![r].cached = NullObj]
          /\ UNCHANGED cachedToken
     ELSE /\ proc' = [proc EXCEPT ![r].pc = "loaded", ![r].cached = NullObj]
          /\ cachedToken' = [cachedToken EXCEPT ![r] = NullObj]
  /\ UNCHANGED <<file, dir, now, last, tok, rec, res, geo, wait>>

\* clearTokenCache: fs.unlinkSync(this.tokenCacheFile); it throws when the
\* file is gone, which the catch block logs
Unlink(r) ==
  /\ proc[r].pc = "unlink"
  /\ IF file.exists
     THEN /\ file' = NoFile
          /\ cachedToken' = [cachedToken EXCEPT ![r] = NullObj]
          /\ last' = Step("unlink", r, file, last.startCorrupt)
     ELSE UNCHANGED <<file, cachedToken, last>>
  /\ proc' = [proc EXCEPT ![r].pc = "loaded"]
  /\ UNCHANGED <<dir, now, tok, rec, res, geo, wait>>

\* getValidToken: isCachedTokenValid(cachedToken)
Validate(r) ==
  /\ proc[r].pc = "loaded"
  /\ proc' = [proc EXCEPT ![r].pc = afterLoad(proc[r].cached, now)]
  /\ UNCHANGED <<file, dir, cachedToken, now, last, tok, rec, res, geo, wait>>

\* getValidToken: performSSOLogin(bearerToken)
Login(r) ==
  /\ proc[r].pc = "login"
  /\ \E net \in {Net("neterr", NullObj), Net("ok", RunAnswer(r))} :
       \E a \in {performSSOLogin(StoreOf(r), net)} :
         proc' = [proc EXCEPT ![r].pc = IF a.ret.nul THEN "done" ELSE "write",
                              ![r].data = a.ret]
  /\ UNCHANGED <<file, dir, cachedToken, now, last, tok, rec, res, geo, wait>>

\* getValidToken: saveTokenToCache(tokenData), no file-system call failing
WriteFile(r) ==
  /\ proc[r].pc = "write"
  /\ \E sv \in {saveTokenToCache(StoreOf(r), proc[r].data, now, NoFault)} :
       /\ file' = sv.st.file
       /\ dir' = sv.st.dir
       /\ cachedToken' = [cachedToken EXCEPT ![r] = sv.st.cachedToken]
       /\ proc' = [proc EXCEPT ![r].pc = "done", ![r].saved = sv.ret.b]
  /\ last' = Step("write", r, file, last.startCorrupt)
  /\ UNCHANGED <<now, tok, rec, res, geo, wait>>

NextRace ==
  \E r \in Runs :
    \/ ExistsSync(r)
    \/ ReadFile(r)
    \/ ClearExists(r)
    \/ Unlink(r)
    \/ Validate(r)
    \/ Login(r)
    \/ WriteFile(r)

SpecRace == InitRace /\ [][NextRace]_vars

\* text f is the complete record run r wrote
WrittenBy(f, r) ==
  /\ f.exists
  /\ f.closed
  /\ parse(f).val.f["jwt"] = RunAnswer(r).f["jwt"]

BothFinished == \A r \in Runs : proc[r].pc = "done"

\* no unlink has deleted the complete record of the other run
ClearSpares ==
  (last.op = "unlink")
    => \A r \in Runs \ {last.by} : ~WrittenBy(last.before, r)

\* both runs finished and one of them saved: the file holds the complete
\* record of a run that saved
SavedSurvives ==
  (BothFinished /\ \E r \in Runs : proc[r].saved)
    => \E r \in Runs : proc[r].saved /\ WrittenBy(file, r)

\* C27 as stated: with two runs interleaving on the cache file, the clear
\* of one run never deletes a complete record the other run has finished
\* writing, and after both runs have finished the file holds the complete
\* record of one of the runs that saved, never no file.
C27_ClearSparesFinishedRecord == ClearSpares /\ SavedSurvives

\* C27 amended: that holds provided the cache file was not a corrupt text
\* when the two runs started (and no file-system call fails).  When it was
\* corrupt, the clear of one run can delete the record the other run has
\* finished writing, and the file can be gone after both have finished; a
\* corrupt text is never what the two runs leave behind.
C27_ClearSparesUnlessStartCorrupt ==
  /\ ~last.startCorrupt => (ClearSpares /\ SavedSurvives)
  /\ BothFinished => (file.exists => file.closed)

\* no corrupt file at the start, both runs saved, the record of one is left
C27_Witness ==
  /\ ~last.startCorrupt
  /\ BothFinished
  /\ \A r \in Runs : proc[r].saved
  /\ WrittenBy(file, "a")
  /\ last.op = "write" /\ WrittenBy(last.before, "b")

\* a corrupt file at the start: run b saved its record, the unlink of run a
\* deleted it, and no file is left
C27_WitnessLost ==
  /\ last.startCorrupt
  /\ BothFinished
  /\ proc["b"].saved /\ ~proc["a"].saved
  /\ last.op = "unlink" /\ last.by = "a" /\ WrittenBy(last.before, "b")
  /\ ~file.exists

====
